---- MODULE Spec2Model ----
(***************************************************************************)
(* A model of pytablewriter's AbstractTableWriter                          *)
(* (src/pytablewriter/writer/_table_writer.py): the preprocessing cache    *)
(* with its four validity flags, the style resolution cascade, and the     *)
(* chunked iterative write.                                                *)
(*                                                                         *)
(* Optional values (Python None) are modelled as sets: {} is None and {x}  *)
(* is the value x.  An alignment is a string; the unset alignment is the   *)
(* string "None".                                                          *)
(***************************************************************************)
EXTENDS Integers, Sequences, FiniteSets, TLC

\* ------------------------------------------------------------------ bounds

\* Largest number of style filters a writer holds in the model.
MaxFilters == 3
\* Largest number of calls on the writer in one behaviour.
MaxOps == 2
\* Largest number of chunks in the value matrix of an iterative write.
MaxChunks == 3
\* Largest iteration_length.
MaxIterLen == 3

\* ------------------------------------------------------- program constants

\* The reserved row index of the header row (from ._common import HEADER_ROW).
HEADER_ROW == -1

\* self._use_default_header = False in __init__; no code of the class sets it.
_use_default_header == FALSE

\* ------------------------------------------------------------ value helpers

Some(x) == {x}
Get(o) == CHOOSE x \in o : TRUE
IsNone(o) == o = {}

Max(a, b) == IF a >= b THEN a ELSE b

Range(s) == {s[i] : i \in 1..Len(s)}

\* ceil(n * 0.25) for a natural number n.
CeilQuarter(n) == (n + 3) \div 4

\* ------------------------------------------------------------------- styles

\* Style(): alignment AUTO, no padding, normal weight.
Style(a, p, fw) == [align |-> a, padding |-> p, font_weight |-> fw]

StyleDefault == Style("AUTO", {}, "NORMAL")
StyleCenterPad == Style("CENTER", Some(1), "NORMAL")
StyleRightBold == Style("RIGHT", {}, "BOLD")
StyleLeft == Style("LEFT", {}, "NORMAL")

\* The styles a caller hands to the writer in the model.
StyleChoices == {StyleDefault, StyleCenterPad, StyleRightBold}

\* ------------------------------------------------------------------- values

\* A raw cell value: its type, its length in characters, its display width,
\* and whether it carries ANSI escape sequences.
Value(tc, n, w, ansi) == [tc |-> tc, len |-> n, w |-> w, ansi |-> ansi]

V_i1 == Value("INTEGER", 1, 1, FALSE)
V_i3 == Value("INTEGER", 3, 3, FALSE)
V_s2 == Value("STRING", 2, 2, FALSE)
V_s4 == Value("STRING", 4, 4, FALSE)
\* a string of one wide character: one character, two display cells
V_wide == Value("STRING", 1, 2, FALSE)
\* a number in ANSI escape sequences: ten characters, two display cells
V_ansi == Value("STRING", 10, 2, TRUE)
\* None, which the writer renders as ""
V_none == Value("NONE", 0, 0, FALSE)

\* A header name: a string; its display width is its length.
HeaderChoices == {<<>>, <<"a">>, <<"bbb", "c">>}

\* ------------------------------------------- the typing collaborator (dataproperty)

\* DataPropertyExtractor.min_column_width, set to 1 in __init__.
min_column_width == 1

\* The default alignment of a type: numbers to the right, the rest to the left.
AlignOf(tc) == IF tc = "INTEGER" THEN "RIGHT" ELSE "LEFT"

\* The type hint of the column at 0-based index col_idx: "None" when absent.
HintOf(hints, col_idx) ==
    IF col_idx + 1 <= Len(hints) THEN hints[col_idx + 1] ELSE "None"

\* The typed form (DataProperty) of a raw value under a type hint.  A string
\* with ANSI escape sequences is aligned as what it decorates, a number here.
ToDp(v, hint) ==
    LET tc == IF hint = "STRING" /\ v.tc # "NONE" THEN "STRING" ELSE v.tc
    IN  [typecode |-> tc, len |-> v.len, w |-> v.w, ansi |-> v.ansi,
         align |-> IF v.ansi THEN AlignOf("INTEGER") ELSE AlignOf(tc)]

\* The typed form of a header name.
HeaderDp(h) ==
    [typecode |-> "STRING", len |-> Len(h), w |-> Len(h), ansi |-> FALSE,
     align |-> "LEFT"]

\* DataPropertyExtractor.to_header_dp_list(): one typed value per header.
to_header_dp_list(hdrs) == [i \in 1..Len(hdrs) |-> HeaderDp(hdrs[i])]

\* A row cut or padded (with None) to n cells: MatrixFormatting.HEADER_ALIGNED.
ResizeRow(row, n) ==
    [i \in 1..n |-> IF i <= Len(row) THEN row[i] ELSE V_none]

\* DataPropertyExtractor.to_dp_matrix(to_value_matrix(headers, rows)).
to_dp_matrix(hdrs, hints, rows) ==
    [r \in 1..Len(rows) |->
        LET row == IF hdrs = <<>> THEN rows[r] ELSE ResizeRow(rows[r], Len(hdrs))
        IN  [c \in 1..Len(row) |-> ToDp(row[c], HintOf(hints, c - 1))]]

\* The type of a column that holds values of types a and b.
MergeTypecode(a, b) ==
    IF a = "NONE" THEN b ELSE IF b = "NONE" \/ a = b THEN a ELSE "STRING"

ColumnDp(idx, tc, w) ==
    [column_index |-> idx, typecode |-> tc, align |-> AlignOf(tc),
     ascii_char_width |-> w]

\* The number of columns zip(*matrix) yields: the length of the shortest row.
RECURSIVE MinRowLen(_)
MinRowLen(m) ==
    IF m = <<>> THEN 0
    ELSE IF Len(m) = 1 THEN Len(m[1])
    ELSE LET rest == MinRowLen(Tail(m))
         IN  IF Len(m[1]) <= rest THEN Len(m[1]) ELSE rest

\* A column updated with the cells m[1][c] .. m[n][c] (update_body).
RECURSIVE UpdateBody(_, _, _, _)
UpdateBody(col, m, c, n) ==
    IF n = 0 THEN col
    ELSE LET before == UpdateBody(col, m, c, n - 1)
             dp == m[n][c]
         IN  ColumnDp(before.column_index,
                      MergeTypecode(before.typecode, dp.typecode),
                      Max(before.ascii_char_width, dp.w))

\* DataPropertyExtractor.to_column_dp_list(value_dp_matrix, previous): a column
\* per header, then every column of the matrix merged with the previous
\* column of the same index and updated with its cells.  A column with no
\* cell in the matrix is not merged.
to_column_dp_list(hdrs, m, prev) ==
    LET ncols == MinRowLen(m)
        n == Max(Len(hdrs), ncols)
        base(i) == IF i <= Len(hdrs)
                   THEN ColumnDp(i - 1, "NONE", Max(Len(hdrs[i]), min_column_width))
                   ELSE ColumnDp(i - 1, "NONE", min_column_width)
        merged(i) == IF i <= Len(prev)
                     THEN ColumnDp(i - 1,
                                   MergeTypecode(base(i).typecode, prev[i].typecode),
                                   Max(base(i).ascii_char_width, prev[i].ascii_char_width))
                     ELSE base(i)
    IN  [i \in 1..n |->
            IF i <= ncols THEN UpdateBody(merged(i), m, i, Len(m)) ELSE base(i)]

\* ColumnDataProperty.extend_width / extend_body_width.
extend_width(col, n) == [col EXCEPT !.ascii_char_width = @ + n]

\* DataProperty.get_padding_len(ascii_char_width).
get_padding_len(value_dp, ascii_char_width) ==
    Max(ascii_char_width - (value_dp.w - value_dp.len), 0)

\* StylerInterface.get_additional_char_width(style): the width of the
\* decoration a style adds around a value (bold is written **value**).
get_additional_char_width(style) == IF style.font_weight = "BOLD" THEN 4 ELSE 0

\* --------------------------------------------------------------- style filters

\* header_style_filter: a centred style for the header row, else None.
header_style_filter(cell) ==
    IF cell.row = HEADER_ROW THEN Some(Style("CENTER", {}, "NORMAL")) ELSE {}

\* DEFAULT_STYLE_FILTERS = [header_style_filter]
DEFAULT_STYLE_FILTERS == <<"header_style_filter">>

\* The filter functions callers add in the model:
\*   body_filter    a right-aligned, padded style for body rows, else None
\*   col0_filter    a left-aligned style for the first column, else None
\*   none_filter    always None
UserFilters == {"body_filter", "col0_filter", "none_filter"}

\* The call style_filter(Cell(row, col, value, default_style), **kwargs).
ApplyFilter(f, cell) ==
    CASE f = "header_style_filter" -> header_style_filter(cell)
      [] f = "body_filter" ->
            IF cell.row >= 0 THEN Some(Style("RIGHT", Some(2), "NORMAL")) ELSE {}
      [] f = "col0_filter" ->
            IF cell.col = 0 THEN Some(StyleLeft) ELSE {}
      [] OTHER -> {}

\* ------------------------------------------------------------ writer state

VARIABLES
    \* configuration
    table_name,               \* self._table_name
    headers,                  \* self._dp_extractor.headers
    value_matrix,             \* self.__value_matrix_org
    type_hints,               \* self._dp_extractor.column_type_hints
    default_style,            \* self.__default_style
    col_style_list,           \* self.__col_style_list
    _style_filters,
    _enable_style_filter,
    style_filter_kwargs,      \* the keys of the keyword-argument bag
    _check_style_filter_kwargs_funcs,
    colorize_terminal,
    enable_ansi_escape,
    is_formatting_float,      \* self._dp_extractor.is_formatting_float
    is_padding,
    is_write_header,
    is_write_opening_row,
    is_write_closing_row,
    iteration_length,
    stream,
    writer_class,             \* what the concrete writer class declares
    \* preprocessing cache
    _is_complete_table_dp_preprocess,
    _is_complete_table_property_preprocess,
    _is_complete_header_preprocess,
    _is_complete_value_matrix_preprocess,
    _column_dp_list,
    _table_headers,
    _table_value_matrix,
    _table_value_dp_matrix,
    \* iterative write
    _iter_count,
    pc,                       \* "idle", or "iter" inside _write_table_iter's loop
    stash,                    \* the three saved flags
    work_source,              \* the sequence the for loop iterates
    work_index,               \* the position of the for loop in it
    \* what the last operation did
    last,
    ops_left,                 \* the calls the behaviour may still make
    \* the environment
    closed_streams,           \* the stream objects that have been closed
    \* a second writer of the same class, constructed with the same stream,
    \* padding, write flags and iteration length
    peer,                     \* its configuration (cfg) and its cache (cache)
    shares_filters,           \* the two _style_filters are one list object
    shares_kwargs             \* the two style_filter_kwargs are one dict object

config_vars ==
    <<table_name, headers, value_matrix, type_hints, default_style, col_style_list,
      _style_filters, _enable_style_filter, style_filter_kwargs,
      _check_style_filter_kwargs_funcs, colorize_terminal, enable_ansi_escape,
      is_formatting_float, is_padding, iteration_length, stream, writer_class>>

write_flag_vars == <<is_write_header, is_write_opening_row, is_write_closing_row>>

status_vars ==
    <<_is_complete_table_dp_preprocess, _is_complete_table_property_preprocess,
      _is_complete_header_preprocess, _is_complete_value_matrix_preprocess>>

data_vars ==
    <<_column_dp_list, _table_headers, _table_value_matrix, _table_value_dp_matrix>>

iter_vars == <<_iter_count, pc, stash, work_source, work_index>>

peer_vars == <<peer, shares_filters, shares_kwargs>>

vars ==
    <<config_vars, write_flag_vars, status_vars, data_vars, iter_vars, last, ops_left,
      closed_streams, peer_vars>>

\* ------------------------------------------------------------ value matrices

\* A row matrix: ok is FALSE when the rows cannot be coerced (to_value_matrix
\* or to_dp_matrix raises TypeError).
Rows(ok, rows) == [kind |-> "rows", ok |-> ok, rows |-> rows, chunks |-> <<>>]
\* A sequence of row matrices, for the iterative write.
Chunks(chunks) == [kind |-> "chunks", ok |-> TRUE, rows |-> <<>>, chunks |-> chunks]

\* typepy.is_empty_sequence(value_matrix)
is_empty_sequence_matrix(vm) ==
    IF vm.kind = "rows" THEN vm.ok /\ vm.rows = <<>> ELSE vm.chunks = <<>>

\* ---------------------------------------------------------- style resolution

\* A _get_col_style that never looks at the per-column styles.
_get_col_style_DefaultOnly(col_idx) == default_style

_get_col_style(col_idx) ==
    IF col_idx + 1 <= Len(col_style_list) /\ col_style_list[col_idx + 1] # {}
    THEN Get(col_style_list[col_idx + 1])
    ELSE default_style

_get_padding_len(column_dp, value_dp) ==
    IF ~is_padding THEN 0
    ELSE get_padding_len(value_dp, column_dp.ascii_char_width)

\* A __retrieve_align_from_data that never looks at the value.
__retrieve_align_from_data_ColumnOnly(col_dp, value_dp) == col_dp.align

__retrieve_align_from_data(col_dp, value_dp) ==
    IF col_dp.typecode = "STRING"
       /\ (value_dp.typecode \in {"INTEGER", "REAL_NUMBER"}
           \/ (value_dp.typecode = "STRING" /\ value_dp.ansi))
    THEN value_dp.align
    ELSE col_dp.align

\* The for loop over self._style_filters: the style of the first filter that
\* returns one (None when none does) and the filters called, in order.
RECURSIVE RunFilters(_, _)
RunFilters(filters, cell) ==
    IF filters = <<>> THEN [style |-> {}, calls |-> <<>>]
    ELSE LET style == ApplyFilter(Head(filters), cell)
         IN  IF style # {}
             THEN [style |-> style, calls |-> <<Head(filters)>>]
             ELSE LET rest == RunFilters(Tail(filters), cell)
                  IN  [style |-> rest.style, calls |-> <<Head(filters)>> \o rest.calls]

\* Returns the resolved style and the filters that were called for the cell.
_fetch_style_from_filter(row_idx, col_dp, value_dp, dflt) ==
    IF ~_enable_style_filter THEN [style |-> dflt, calls |-> <<>>]
    ELSE
        LET cell == [row |-> row_idx, col |-> col_dp.column_index,
                     value |-> value_dp, default_style |-> dflt]
            found == RunFilters(_style_filters, cell)
            style == IF found.style = {} THEN dflt ELSE Get(found.style)
            align == IF style.align = "None" \/ (style.align = "AUTO" /\ row_idx >= 0)
                     THEN __retrieve_align_from_data(col_dp, value_dp)
                     ELSE style.align
            padding == IF style.padding = {}
                       THEN Some(_get_padding_len(col_dp, value_dp))
                       ELSE style.padding
        IN  [style |-> [style EXCEPT !.align = align, !.padding = padding],
             calls |-> found.calls]

_fetch_style(row, col_dp, value_dp) ==
    _fetch_style_from_filter(row, col_dp, value_dp, _get_col_style(col_dp.column_index))

\* A cell as the styler leaves it: the text's length, the style it was aligned
\* and padded with, whether terminal escapes were applied; and, for the
\* record, the filters that were called to resolve the style.
StyledItem(row, col_dp, value_dp) ==
    LET fetched == _fetch_style(row, col_dp, value_dp)
    IN  [row |-> row, col |-> col_dp.column_index, len |-> value_dp.len,
         style |-> fetched.style, calls |-> fetched.calls,
         terminal |-> colorize_terminal /\ enable_ansi_escape]

_to_header_item(col_dp, value_dp) == StyledItem(HEADER_ROW, col_dp, value_dp)

_to_row_item(row_idx, col_dp, value_dp) == StyledItem(row_idx, col_dp, value_dp)

\* ------------------------------------------------------- preprocessing stages

Min(a, b) == IF a <= b THEN a ELSE b

\* The cache while a preprocessing run works on it.  tdp, tprop, thdr and tval
\* are the four validity flags in stage order; ran is the set of stage bodies
\* that ran, fetched tells whether a cell style was resolved, and err is the
\* exception a stage raised ("ok" when none).
CurrentCache ==
    [tdp |-> _is_complete_table_dp_preprocess,
     tprop |-> _is_complete_table_property_preprocess,
     thdr |-> _is_complete_header_preprocess,
     tval |-> _is_complete_value_matrix_preprocess,
     column_dp_list |-> _column_dp_list,
     table_headers |-> _table_headers,
     table_value_matrix |-> _table_value_matrix,
     table_value_dp_matrix |-> _table_value_dp_matrix,
     ran |-> {}, order |-> <<>>, fetched |-> FALSE, err |-> "ok"]

__clear_preprocess_status(c) ==
    [c EXCEPT !.tdp = FALSE, !.tprop = FALSE, !.thdr = FALSE, !.tval = FALSE]

__clear_preprocess_data(c) ==
    [c EXCEPT !.column_dp_list = <<>>, !.table_headers = <<>>,
              !.table_value_matrix = <<>>, !.table_value_dp_matrix = <<>>]

__clear_preprocess(c) == __clear_preprocess_data(__clear_preprocess_status(c))

\* A _preprocess_table_dp that lets the TypeError of the coercion through.
_preprocess_table_dp_Raises(c, vm) ==
    IF c.tdp \/ c.err # "ok" THEN c
    ELSE IF ~vm.ok
    THEN [c EXCEPT !.err = "TypeError",
                   !.ran = @ \cup {"table_dp"}, !.order = Append(@, "table_dp")]
    ELSE [c EXCEPT !.table_value_dp_matrix = to_dp_matrix(headers, type_hints, vm.rows),
                   !.column_dp_list =
                        to_column_dp_list(headers,
                                          to_dp_matrix(headers, type_hints, vm.rows),
                                          c.column_dp_list),
                   !.tdp = TRUE,
                   !.ran = @ \cup {"table_dp"}, !.order = Append(@, "table_dp")]

_preprocess_table_dp(c, vm) ==
    IF c.tdp \/ c.err # "ok" THEN c
    ELSE
        LET m == IF vm.ok THEN to_dp_matrix(headers, type_hints, vm.rows) ELSE <<>>
        IN  [c EXCEPT !.table_value_dp_matrix = m,
                      !.column_dp_list = to_column_dp_list(headers, m, c.column_dp_list),
                      !.tdp = TRUE,
                      !.ran = @ \cup {"table_dp"}, !.order = Append(@, "table_dp")]

_preprocess_table_property(c, iter_count) ==
    IF c.tprop \/ c.err # "ok" THEN c
    ELSE
        LET cols == c.column_dp_list
            widened == IF iter_count = Some(1)
                       THEN [i \in 1..Len(cols) |->
                                extend_width(cols[i], CeilQuarter(cols[i].ascii_char_width))]
                       ELSE cols
            header_dp_list == to_header_dp_list(headers)
            \* the columns the for loop reaches before header_dp_list[index]
            \* raises IndexError
            reached == Min(Len(widened), Len(header_dp_list))
            extended ==
                [i \in 1..Len(widened) |->
                    IF i > reached THEN widened[i]
                    ELSE LET column_dp == widened[i]
                             style == _get_col_style(column_dp.column_index)
                             header_style ==
                                 _fetch_style(HEADER_ROW, column_dp,
                                              header_dp_list[column_dp.column_index + 1]).style
                         IN  extend_width(column_dp,
                                          Max(get_additional_char_width(style),
                                              get_additional_char_width(header_style)))]
        IN  IF header_dp_list = <<>>
            THEN [c EXCEPT !.column_dp_list = widened,
                           !.ran = @ \cup {"table_property"}, !.order = Append(@, "table_property")]
            ELSE [c EXCEPT
                    !.column_dp_list = extended,
                    !.tprop = (reached = Len(widened)),
                    !.err = IF reached = Len(widened) THEN "ok" ELSE "IndexError",
                    !.fetched = @ \/ reached > 0,
                    !.ran = @ \cup {"table_property"}, !.order = Append(@, "table_property")]

\* A _preprocess_header that returns, leaving its flag, when there is no header.
_preprocess_header_SkipsEmpty(c) ==
    IF c.thdr \/ c.err # "ok" \/ to_header_dp_list(headers) = <<>> THEN c
    ELSE
        LET header_dp_list == to_header_dp_list(headers)
            n == Min(Len(c.column_dp_list), Len(header_dp_list))
        IN  [c EXCEPT
                !.table_headers =
                    [i \in 1..n |-> _to_header_item(c.column_dp_list[i], header_dp_list[i])],
                !.thdr = TRUE,
                !.fetched = @ \/ n > 0,
                !.ran = @ \cup {"header"}, !.order = Append(@, "header")]

_preprocess_header(c) ==
    IF c.thdr \/ c.err # "ok" THEN c
    ELSE
        LET header_dp_list == to_header_dp_list(headers)
            n == Min(Len(c.column_dp_list), Len(header_dp_list))
        IN  [c EXCEPT
                !.table_headers =
                    [i \in 1..n |-> _to_header_item(c.column_dp_list[i], header_dp_list[i])],
                !.thdr = TRUE,
                !.fetched = @ \/ n > 0,
                !.ran = @ \cup {"header"}, !.order = Append(@, "header")]

_preprocess_value_matrix(c) ==
    IF c.tval \/ c.err # "ok" THEN c
    ELSE
        LET m == c.table_value_dp_matrix
            n(r) == Min(Len(c.column_dp_list), Len(m[r]))
        IN  [c EXCEPT
                !.table_value_matrix =
                    [r \in 1..Len(m) |->
                        [i \in 1..n(r) |-> _to_row_item(r - 1, c.column_dp_list[i], m[r][i])]],
                !.tval = TRUE,
                !.fetched = @ \/ (\E r \in 1..Len(m) : n(r) > 0),
                !.ran = @ \cup {"value_matrix"}, !.order = Append(@, "value_matrix")]

\* A _preprocess that materializes the body before the header.
_preprocess_BodyFirst(c, vm, iter_count) ==
    _preprocess_header(
        _preprocess_value_matrix(
            _preprocess_table_property(_preprocess_table_dp(c, vm), iter_count)))

_preprocess(c, vm, iter_count) ==
    _preprocess_value_matrix(
        _preprocess_header(
            _preprocess_table_property(_preprocess_table_dp(c, vm), iter_count)))

\* The concrete writer's _write_table calling _preprocess() runs times (once
\* in the text writers; a writer that builds its output in several steps
\* calls it in each).
RECURSIVE PreprocessRuns(_, _, _, _)
PreprocessRuns(runs, c, vm, iter_count) ==
    IF runs = 0 THEN c
    ELSE _preprocess(PreprocessRuns(runs - 1, c, vm, iter_count), vm, iter_count)

\* The keyword-argument bag after a preprocessing run: a style resolution with
\* filters enabled stores the writer in it.
KwargsAfter(c) ==
    IF c.fetched /\ _enable_style_filter
    THEN style_filter_kwargs \cup {"writer"}
    ELSE style_filter_kwargs

\* What a concrete writer's _write_table puts on the stream for the cache c.
Rendered(c, write_header, opening_row, closing_row) ==
    [opening_row |-> opening_row,
     header |-> IF write_header THEN c.table_headers ELSE <<>>,
     body |-> c.table_value_matrix,
     closing_row |-> closing_row]

\* ----------------------------------------------------------------- verifying

\* The check functions themes register: check_color needs the key "color".
CheckFails(checker, kwargs) == checker = "check_color" /\ "color" \notin kwargs

_verify_style_filter_kwargs ==
    IF \E i \in 1..Len(_check_style_filter_kwargs_funcs) :
            CheckFails(_check_style_filter_kwargs_funcs[i], style_filter_kwargs)
    THEN "ValueError" ELSE "ok"

_verify_table_name ==
    IF writer_class._is_require_table_name /\ table_name = ""
    THEN "EmptyTableNameError" ELSE "ok"

\* A _verify_stream that accepts the null stream.
_verify_stream_NoCheck == "ok"

_verify_stream == IF stream = "None" THEN "OSError" ELSE "ok"

_validate_empty_header == IF headers = <<>> THEN "ValueError" ELSE "ok"

_verify_header ==
    IF writer_class._is_require_header /\ ~_use_default_header
    THEN _validate_empty_header ELSE "ok"

_verify_value_matrix ==
    IF is_empty_sequence_matrix(value_matrix) THEN "EmptyValueError" ELSE "ok"

\* The first failure of a sequence of checks, "ok" when there is none.
RECURSIVE FirstFailure(_)
FirstFailure(results) ==
    IF results = <<>> THEN "ok"
    ELSE IF Head(results) # "ok" THEN Head(results)
    ELSE FirstFailure(Tail(results))

\* A _verify_property that does not look for the empty table.
_verify_property_NoEmptyCheck ==
    LET first == FirstFailure(<<_verify_style_filter_kwargs, _verify_table_name,
                                _verify_stream>>)
    IN  IF first # "ok" THEN first ELSE "ok"

_verify_property ==
    LET first == FirstFailure(<<_verify_style_filter_kwargs, _verify_table_name,
                                _verify_stream>>)
    IN  IF first # "ok" THEN first
        ELSE IF headers = <<>> /\ is_empty_sequence_matrix(value_matrix)
                /\ _table_value_dp_matrix = <<>>
        THEN "EmptyTableDataError"
        ELSE IF _verify_header # "ok" THEN _verify_header
        ELSE IF _verify_value_matrix = "EmptyValueError" THEN "ok"
        ELSE _verify_value_matrix

\* ------------------------------------------------------------ state updates

\* The writer's configuration as a record, and the step that stores one.
Config ==
    [table_name |-> table_name, headers |-> headers, value_matrix |-> value_matrix,
     type_hints |-> type_hints, default_style |-> default_style,
     col_style_list |-> col_style_list, _style_filters |-> _style_filters,
     _enable_style_filter |-> _enable_style_filter,
     style_filter_kwargs |-> style_filter_kwargs,
     _check_style_filter_kwargs_funcs |-> _check_style_filter_kwargs_funcs,
     colorize_terminal |-> colorize_terminal,
     enable_ansi_escape |-> enable_ansi_escape,
     is_formatting_float |-> is_formatting_float,
     shares_filters |-> shares_filters, shares_kwargs |-> shares_kwargs]

\* A second writer in the state this writer is in.
Twin == [cfg |-> Config, cache |-> CurrentCache]

\* The attributes of this writer take the values of cfg.
StoreOwnConfig(cfg) ==
    /\ table_name' = cfg.table_name
    /\ headers' = cfg.headers
    /\ value_matrix' = cfg.value_matrix
    /\ type_hints' = cfg.type_hints
    /\ default_style' = cfg.default_style
    /\ col_style_list' = cfg.col_style_list
    /\ _style_filters' = cfg._style_filters
    /\ _enable_style_filter' = cfg._enable_style_filter
    /\ style_filter_kwargs' = cfg.style_filter_kwargs
    /\ _check_style_filter_kwargs_funcs' = cfg._check_style_filter_kwargs_funcs
    /\ colorize_terminal' = cfg.colorize_terminal
    /\ enable_ansi_escape' = cfg.enable_ansi_escape
    /\ is_formatting_float' = cfg.is_formatting_float
    /\ shares_filters' = cfg.shares_filters
    /\ shares_kwargs' = cfg.shares_kwargs
    /\ UNCHANGED <<is_padding, iteration_length, stream, writer_class, closed_streams>>

\* What the other writer sees of a step that leaves this writer with cfg: a
\* list or a dict the two writers share and this one changed in place is
\* changed for the other too; an attribute this writer bound to a new object
\* (cfg.shares_filters turned FALSE) is the other's no more.
SeenByPeer(cfg) ==
    [peer EXCEPT
        !.cfg._style_filters =
            IF shares_filters /\ cfg.shares_filters THEN cfg._style_filters ELSE @,
        !.cfg.style_filter_kwargs =
            IF shares_kwargs /\ cfg.shares_kwargs THEN cfg.style_filter_kwargs ELSE @,
        !.cfg.shares_filters = cfg.shares_filters,
        !.cfg.shares_kwargs = cfg.shares_kwargs]

StoreConfig(cfg) ==
    /\ StoreOwnConfig(cfg)
    /\ peer' = SeenByPeer(cfg)

StoreCache(c) ==
    /\ _is_complete_table_dp_preprocess' = c.tdp
    /\ _is_complete_table_property_preprocess' = c.tprop
    /\ _is_complete_header_preprocess' = c.thdr
    /\ _is_complete_value_matrix_preprocess' = c.tval
    /\ _column_dp_list' = c.column_dp_list
    /\ _table_headers' = c.table_headers
    /\ _table_value_matrix' = c.table_value_matrix
    /\ _table_value_dp_matrix' = c.table_value_dp_matrix

\* What an operation did: its name, how it ended ("ok", "skipped" for a
\* silent return, "running", or the exception raised), what the renderer
\* wrote, the write_callback calls, and the stage bodies that ran.
Did(op, result, out, callbacks, ran) ==
    [op |-> op, result |-> result, out |-> out, callbacks |-> callbacks, ran |-> ran,
     arg |-> {}, order |-> <<>>]

\* What a call that ran the preprocessing did: order is the stage bodies in
\* the order they ran.
Ordered(order, op, result, out, callbacks, ran) ==
    [Did(op, result, out, callbacks, ran) EXCEPT !.order = order]

\* A setter called with arg (None when the call is told by its name alone):
\* it stores cfg, clears the cache when invalidate is TRUE, and leaves the
\* rest alone.
SetterWith(op, arg, result, cfg, invalidate) ==
    /\ pc = "idle"
    /\ ops_left > 0
    /\ ops_left' = ops_left - 1
    /\ StoreConfig(cfg)
    /\ StoreCache(IF invalidate THEN __clear_preprocess(CurrentCache) ELSE CurrentCache)
    /\ last' = [Did(op, result, <<>>, <<>>, {}) EXCEPT !.arg = arg]
    /\ UNCHANGED <<write_flag_vars, iter_vars>>

Setter(op, result, cfg, invalidate) == SetterWith(op, {}, result, cfg, invalidate)

\* ------------------------------------------------------------------ setters

\* headers.setter
set_headers(value) ==
    Setter("headers", "ok", [Config EXCEPT !.headers = value], FALSE)

\* value_matrix.setter
set_value_matrix(value) ==
    Setter("value_matrix", "ok", [Config EXCEPT !.value_matrix = value], TRUE)

\* type_hints.setter
set_type_hints(value) ==
    IF type_hints = value
    THEN Setter("type_hints", "ok", Config, FALSE)
    ELSE Setter("type_hints", "ok", [Config EXCEPT !.type_hints = value], TRUE)

\* default_style.setter
set_default_style(style) ==
    IF default_style = style
    THEN Setter("default_style", "ok", Config, FALSE)
    ELSE Setter("default_style", "ok", [Config EXCEPT !.default_style = style], TRUE)

\* column_styles.setter
set_column_styles(value) ==
    IF col_style_list = value
    THEN Setter("column_styles", "ok", Config, FALSE)
    ELSE Setter("column_styles", "ok", [Config EXCEPT !.col_style_list = value], TRUE)

\* colorize_terminal.setter
set_colorize_terminal(value) ==
    IF colorize_terminal = value
    THEN Setter("colorize_terminal", "ok", Config, FALSE)
    ELSE Setter("colorize_terminal", "ok",
                [Config EXCEPT !.colorize_terminal = value], TRUE)

\* enable_ansi_escape.setter
set_enable_ansi_escape(value) ==
    IF enable_ansi_escape = value
    THEN Setter("enable_ansi_escape", "ok", Config, FALSE)
    ELSE Setter("enable_ansi_escape", "ok",
                [Config EXCEPT !.enable_ansi_escape = value], TRUE)

\* An is_formatting_float.setter without the comparison with the current value.
set_is_formatting_float_AlwaysClears(value) ==
    Setter("is_formatting_float", "ok", [Config EXCEPT !.is_formatting_float = value],
           TRUE)

\* is_formatting_float.setter
set_is_formatting_float(value) ==
    IF is_formatting_float = value
    THEN Setter("is_formatting_float", "ok", Config, FALSE)
    ELSE Setter("is_formatting_float", "ok",
                [Config EXCEPT !.is_formatting_float = value], TRUE)

\* An add_style_filter that appends the filter behind the chain.
add_style_filter_Append(style_filter) ==
    /\ Len(_style_filters) < MaxFilters
    /\ Setter("add_style_filter", "ok",
              [Config EXCEPT !._style_filters = Append(@, style_filter)], TRUE)

add_style_filter(style_filter) ==
    /\ Len(_style_filters) < MaxFilters
    /\ Setter("add_style_filter", "ok",
              [Config EXCEPT !._style_filters = <<style_filter>> \o @], TRUE)

clear_theme ==
    IF _style_filters = <<>>
    THEN Setter("clear_theme", "ok", Config, FALSE)
    ELSE Setter("clear_theme", "ok",
                [Config EXCEPT !._style_filters = DEFAULT_STYLE_FILTERS,
                               !.shares_filters = FALSE,
                               !._check_style_filter_kwargs_funcs = <<>>], TRUE)

\* An enable_style_filter that keeps the cache.
enable_style_filter_NoClear ==
    Setter("enable_style_filter", "ok", [Config EXCEPT !._enable_style_filter = TRUE],
           FALSE)

enable_style_filter ==
    IF _enable_style_filter
    THEN Setter("enable_style_filter", "ok", Config, FALSE)
    ELSE Setter("enable_style_filter", "ok",
                [Config EXCEPT !._enable_style_filter = TRUE], TRUE)

disable_style_filter(clear_filters) ==
    IF clear_filters
    THEN IF _style_filters = <<>>
         THEN SetterWith("disable_style_filter", Some([clear_filters |-> clear_filters]),
                         "ok", Config, FALSE)
         ELSE SetterWith("disable_style_filter", Some([clear_filters |-> clear_filters]),
                         "ok",
                     [Config EXCEPT !._style_filters = DEFAULT_STYLE_FILTERS,
                                    !.shares_filters = FALSE,
                                    !._check_style_filter_kwargs_funcs = <<>>], TRUE)
    ELSE IF ~_enable_style_filter
         THEN SetterWith("disable_style_filter", Some([clear_filters |-> clear_filters]),
                         "ok", Config, FALSE)
         ELSE SetterWith("disable_style_filter", Some([clear_filters |-> clear_filters]),
                         "ok",
                     [Config EXCEPT !._enable_style_filter = FALSE], TRUE)

\* The column specifiers of set_style in the model: an index ({} for name)
\* or a header name.
ColumnSpecs ==
    {[is_int |-> TRUE, index |-> 0, name |-> ""],
     [is_int |-> TRUE, index |-> 1, name |-> ""],
     [is_int |-> FALSE, index |-> 0, name |-> "c"],
     [is_int |-> FALSE, index |-> 0, name |-> "zz"]}

\* headers.index(column): the 0-based index of the first header equal to
\* column, None when there is none.
HeaderIndex(column) ==
    LET found == {i \in 1..Len(headers) : headers[i] = column}
    IN  IF found = {} THEN {}
        ELSE Some((CHOOSE i \in found : \A j \in found : i <= j) - 1)

\* The style list grown with None to one entry per header.
GrownStyleList ==
    [i \in 1..Max(Len(headers), Len(col_style_list)) |->
        IF i <= Len(col_style_list) THEN col_style_list[i] ELSE {}]

\* A set_style that clears the cache before it looks at the column.
set_style_at_ClearsFirst(column, column_idx, style) ==
    LET arg == Some([column |-> column, style |-> style])
    IN  IF column_idx = {}
        THEN SetterWith("set_style", arg, "ValueError",
                        [Config EXCEPT !.col_style_list = GrownStyleList], TRUE)
        ELSE IF Get(column_idx) >= Len(GrownStyleList)
        THEN SetterWith("set_style", arg, "IndexError",
                        [Config EXCEPT !.col_style_list = GrownStyleList], TRUE)
        ELSE SetterWith("set_style", arg, "ok",
                        [Config EXCEPT !.col_style_list =
                            [GrownStyleList EXCEPT ![Get(column_idx) + 1] = Some(style)]],
                        TRUE)

\* set_style(column, style) once column_idx is known: the index given or the
\* index of the header named, None when the name is no header.
set_style_at(column, column_idx, style) ==
    LET arg == Some([column |-> column, style |-> style])
    IN  IF column_idx = {}
        THEN SetterWith("set_style", arg, "ValueError",
                        [Config EXCEPT !.col_style_list = GrownStyleList], FALSE)
        ELSE IF Get(column_idx) >= Len(GrownStyleList)
        THEN SetterWith("set_style", arg, "IndexError",
                        [Config EXCEPT !.col_style_list = GrownStyleList], FALSE)
        ELSE SetterWith("set_style", arg, "ok",
                        [Config EXCEPT !.col_style_list =
                            [GrownStyleList EXCEPT ![Get(column_idx) + 1] = Some(style)]],
                        TRUE)

set_style(column, style) ==
    set_style_at(column,
                 IF column.is_int THEN Some(column.index) ELSE HeaderIndex(column.name),
                 style)

\* The theme registry (fetch_theme): the style filter and the keyword check a
\* theme brings, None for a part it lacks; a name that is not registered
\* makes fetch_theme raise RuntimeError.
ThemeCalls ==
    {[theme |-> "altrow", kwargs |-> {"color"}], [theme |-> "altrow", kwargs |-> {}],
     [theme |-> "colsep", kwargs |-> {"color"}], [theme |-> "unknown", kwargs |-> {"color"}]}
Theme(name) ==
    CASE name = "altrow" ->
            [style_filter |-> Some("body_filter"),
             check_style_filter_kwargs |-> Some("check_color")]
      [] name = "colsep" ->
            [style_filter |-> {}, check_style_filter_kwargs |-> {}]

\* A set_theme that lets the RuntimeError of fetch_theme through.
set_theme_NoCatch(theme, kwargs) ==
    /\ theme = "unknown"
    /\ SetterWith("set_theme", Some([theme |-> theme, kwargs |-> kwargs]),
                  "RuntimeError", Config, FALSE)

set_theme(theme, kwargs) ==
    IF theme = "unknown"
    THEN SetterWith("set_theme", Some([theme |-> theme, kwargs |-> kwargs]),
                    "warning", Config, FALSE)
    ELSE
        LET fetched_theme == Theme(theme)
            filters == IF fetched_theme.style_filter # {}
                       THEN <<Get(fetched_theme.style_filter)>> \o _style_filters
                       ELSE _style_filters
            checks == IF fetched_theme.check_style_filter_kwargs # {}
                      THEN Append(_check_style_filter_kwargs_funcs,
                                  Get(fetched_theme.check_style_filter_kwargs))
                      ELSE _check_style_filter_kwargs_funcs
        IN  /\ Len(filters) <= MaxFilters
            /\ SetterWith("set_theme", Some([theme |-> theme, kwargs |-> kwargs]), "ok",
                          [Config EXCEPT !._style_filters = filters,
                                         !._check_style_filter_kwargs_funcs = checks,
                                         !.style_filter_kwargs = @ \cup kwargs],
                          fetched_theme.style_filter # {})

\* ------------------------------------------------------------------- streams

\* The stream objects a writer is given: the process's standard output, a
\* test harness capture stream, a file the writer owns, and an object with
\* neither isatty nor close.  "None" is the null stream.
StreamObjects ==
    [stdout |-> [has_isatty |-> TRUE, name |-> "<stdout>", harness |-> FALSE,
                 has_close |-> TRUE],
     capture |-> [has_isatty |-> TRUE, name |-> "", harness |-> TRUE,
                  has_close |-> TRUE],
     file |-> [has_isatty |-> TRUE, name |-> "out.txt", harness |-> FALSE,
               has_close |-> TRUE],
     noclose |-> [has_isatty |-> FALSE, name |-> "", harness |-> FALSE,
                  has_close |-> FALSE]]

StreamChoices == {"stdout", "capture", "file", "noclose", "None"}

\* A __is_skip_close that knows no harness stream.
__is_skip_close_Never == FALSE

\* __is_skip_close: the stream is a pytest capture stream or a notebook stream.
__is_skip_close == StreamObjects[stream].harness

\* What self.stream.isatty() does: AttributeError without the method,
\* ValueError on a closed stream.
IsattyOutcome ==
    IF ~StreamObjects[stream].has_isatty THEN "AttributeError"
    ELSE IF stream \in closed_streams THEN "ValueError"
    ELSE "ok"

\* The frame of close and of the stream setter: all but stream, closed_streams,
\* last and ops_left.
StreamFrame ==
    /\ UNCHANGED <<table_name, headers, value_matrix, type_hints, default_style,
                   col_style_list, _style_filters, _enable_style_filter,
                   style_filter_kwargs, _check_style_filter_kwargs_funcs,
                   colorize_terminal, enable_ansi_escape, is_formatting_float,
                   is_padding, iteration_length, writer_class>>
    /\ UNCHANGED <<write_flag_vars, status_vars, data_vars, iter_vars, peer_vars>>

\* close(); close_raises is stream.close() raising something other than
\* AttributeError.
close(close_raises) ==
    /\ pc = "idle"
    /\ ops_left > 0
    /\ ops_left' = ops_left - 1
    /\ StreamFrame
    /\ IF stream = "None"
       THEN /\ UNCHANGED <<stream, closed_streams>>
            /\ last' = Did("close", "ok", <<>>, <<>>, {})
       ELSE IF IsattyOutcome = "ok"
                /\ StreamObjects[stream].name \in {"<stdin>", "<stdout>", "<stderr>"}
       THEN /\ UNCHANGED <<stream, closed_streams>>
            /\ last' = Did("close", "ok", <<>>, <<>>, {})
       ELSE IF __is_skip_close
       THEN /\ UNCHANGED <<stream, closed_streams>>
            /\ last' = Did("close", "ok", <<>>, <<>>, {})
       ELSE /\ stream' = "None"
            /\ IF ~StreamObjects[stream].has_close
               THEN /\ UNCHANGED closed_streams
                    /\ last' = Did("close", "warning", <<>>, <<>>, {})
               ELSE IF close_raises
               THEN /\ UNCHANGED closed_streams
                    /\ last' = Did("close", "OSError", <<>>, <<>>, {})
               ELSE /\ closed_streams' = closed_streams \cup {stream}
                    /\ last' = Did("close", "ok", <<>>, <<>>, {})

\* stream.setter
set_stream(value) ==
    /\ pc = "idle"
    /\ ops_left > 0
    /\ ops_left' = ops_left - 1
    /\ StreamFrame
    /\ stream' = value
    /\ UNCHANGED closed_streams
    /\ last' = Did("set_stream", "ok", <<>>, <<>>, {})

\* ------------------------------------------------------------- two writers

\* self.from_writer(writer) with the other writer as writer.  has_margin tells
\* whether the writers' class implements the margin property, which
\* AbstractTableWriter leaves raising NotImplementedError.  The two writers
\* have the same stream, so self.stream = writer.stream changes nothing.
from_writer(is_overwrite_table_name, has_margin) ==
    /\ pc = "idle"
    /\ ops_left > 0
    /\ ops_left' = ops_left - 1
    /\ UNCHANGED <<write_flag_vars, iter_vars>>
    /\ StoreConfig([Config EXCEPT
            !.table_name = IF is_overwrite_table_name THEN peer.cfg.table_name ELSE @,
            !.headers = peer.cfg.headers,
            !.value_matrix = peer.cfg.value_matrix,
            !.type_hints = peer.cfg.type_hints,
            !.col_style_list = peer.cfg.col_style_list,
            !._style_filters = peer.cfg._style_filters,
            !.shares_filters = TRUE,
            !.style_filter_kwargs = peer.cfg.style_filter_kwargs,
            !.shares_kwargs = TRUE])
    /\ StoreCache(IF has_margin THEN peer.cache ELSE __clear_preprocess(CurrentCache))
    /\ last' = [Did("from_writer", IF has_margin THEN "ok" ELSE "NotImplementedError",
                    <<>>, <<>>, {})
                EXCEPT !.arg = Some([is_overwrite_table_name |-> is_overwrite_table_name])]

\* The caller turns to the other writer: the calls that follow are calls of
\* its methods.
other_writer ==
    /\ pc = "idle"
    /\ ops_left > 0
    /\ ops_left' = ops_left - 1
    /\ UNCHANGED <<write_flag_vars, iter_vars>>
    /\ StoreOwnConfig(peer.cfg)
    /\ StoreCache(peer.cache)
    /\ peer' = Twin
    /\ last' = Did("other_writer", "ok", <<>>, <<>>, {})

\* ------------------------------------------------------------ from_tabledata

\* A TableData: its name (None when it has none), headers and rows, and the
\* typed matrix it carries when has_value_dp_matrix is true.
TableData(name, hdrs, rows, has_value_dp_matrix, value_dp_matrix) ==
    [table_name |-> name, headers |-> hdrs, rows |-> rows,
     has_value_dp_matrix |-> has_value_dp_matrix, value_dp_matrix |-> value_dp_matrix]

\* [col_dp.type_class for col_dp in self._column_dp_list]
TypeClasses(column_dp_list) ==
    [i \in 1..Len(column_dp_list) |-> column_dp_list[i].typecode]

\* The cache after from_tabledata stored the typed matrix of value in the
\* cache c.
WithTypedMatrix(c, value) ==
    [c EXCEPT !.table_value_dp_matrix = value.value_dp_matrix,
              !.column_dp_list = to_column_dp_list(value.headers, value.value_dp_matrix,
                                                   c.column_dp_list),
              !.tdp = TRUE]

\* A from_tabledata that stores the typed matrix and then assigns the rows,
\* whose setter clears the cache.
from_tabledata_RowsLast(value, is_overwrite_table_name) ==
    /\ pc = "idle"
    /\ ops_left > 0
    /\ ops_left' = ops_left - 1
    /\ UNCHANGED <<write_flag_vars, iter_vars>>
    /\ LET cleared == __clear_preprocess(CurrentCache)
           c == IF value.has_value_dp_matrix
                THEN __clear_preprocess(WithTypedMatrix(cleared, value))
                ELSE cleared
       IN  /\ StoreConfig([Config EXCEPT
                    !.table_name = IF ~is_overwrite_table_name THEN @
                                   ELSE IF value.table_name = {} THEN ""
                                   ELSE Get(value.table_name),
                    !.headers = value.headers,
                    !.value_matrix = Rows(TRUE, value.rows),
                    !.type_hints = IF value.has_value_dp_matrix
                                   THEN TypeClasses(WithTypedMatrix(cleared, value).column_dp_list)
                                   ELSE @])
           /\ StoreCache(c)
    /\ last' = [Did("from_tabledata", "ok", <<>>, <<>>, {})
                EXCEPT !.arg = Some([value |-> value,
                                     is_overwrite_table_name |-> is_overwrite_table_name])]

\* from_tabledata(value, is_overwrite_table_name): the cache is cleared, the
\* name, headers and rows are assigned through their setters, and a typed
\* matrix that value carries is stored with the columns computed from it.
from_tabledata(value, is_overwrite_table_name) ==
    /\ pc = "idle"
    /\ ops_left > 0
    /\ ops_left' = ops_left - 1
    /\ UNCHANGED <<write_flag_vars, iter_vars>>
    /\ LET cleared == __clear_preprocess(CurrentCache)
           c == IF value.has_value_dp_matrix
                THEN WithTypedMatrix(cleared, value)
                ELSE cleared
       IN  /\ StoreConfig([Config EXCEPT
                    !.table_name = IF ~is_overwrite_table_name THEN @
                                   ELSE IF value.table_name = {} THEN ""
                                   ELSE Get(value.table_name),
                    !.headers = value.headers,
                    !.value_matrix = Rows(TRUE, value.rows),
                    !.type_hints = IF value.has_value_dp_matrix
                                   THEN TypeClasses(c.column_dp_list)
                                   ELSE @])
           /\ StoreCache(c)
    /\ last' = [Did("from_tabledata", "ok", <<>>, <<>>, {})
                EXCEPT !.arg = Some([value |-> value,
                                     is_overwrite_table_name |-> is_overwrite_table_name])]

\* ---------------------------------------------------------------- write_table

\* write_table(): _verify_property, then the concrete writer's _write_table,
\* which runs _preprocess and writes the table; renderer_fails is the
\* renderer raising while it writes.
write_table(renderer_fails) ==
    /\ pc = "idle"
    /\ value_matrix.kind = "rows"
    /\ ops_left > 0
    /\ ops_left' = ops_left - 1
    /\ UNCHANGED <<write_flag_vars, iter_vars>>
    /\ LET verified == _verify_property
           c == _preprocess(CurrentCache, value_matrix, _iter_count)
       IN  IF verified # "ok"
           THEN /\ StoreConfig(Config)
                /\ StoreCache(CurrentCache)
                /\ last' = Did("write_table",
                               IF verified = "EmptyTableDataError" THEN "skipped"
                               ELSE verified,
                               <<>>, <<>>, {})
           ELSE /\ StoreConfig([Config EXCEPT !.style_filter_kwargs = KwargsAfter(c)])
                /\ StoreCache(c)
                /\ last' = Ordered(c.order, "write_table",
                               IF c.err # "ok" THEN c.err
                               ELSE IF renderer_fails THEN "RendererError" ELSE "ok",
                               IF c.err = "ok" /\ ~renderer_fails
                               THEN <<[table |-> Rendered(c, is_write_header,
                                                          is_write_opening_row,
                                                          is_write_closing_row),
                                       value_matrix |-> value_matrix,
                                       separator |-> FALSE]>>
                               ELSE <<>>,
                               <<>>, c.ran)

\* ---------------------------------------------------------- write_table_iter

\* A finally clause that restores is_write_opening_row from the wrong local.
RestoreStash_WrongLocal ==
    /\ is_write_header' = stash.is_write_header
    /\ is_write_opening_row' = stash.is_write_header
    /\ is_write_closing_row' = stash.is_write_closing_row
    /\ _iter_count' = {}

\* The finally clause of _write_table_iter.
RestoreStash ==
    /\ is_write_header' = stash.is_write_header
    /\ is_write_opening_row' = stash.is_write_opening_row
    /\ is_write_closing_row' = stash.is_write_closing_row
    /\ _iter_count' = {}

\* Checks of _write_table_iter without the return for the empty table.
_write_table_iter_checks_NoEmptyReturn ==
    LET first == FirstFailure(<<_verify_style_filter_kwargs, _verify_table_name,
                                _verify_stream>>)
    IN  IF ~writer_class.support_split_write THEN "NotSupportedError"
        ELSE IF first # "ok" THEN first
        ELSE _verify_header

\* What _write_table_iter does before it stashes the write flags: the
\* exception it raises, "skipped" for the silent return, "ok" to go on.
_write_table_iter_checks ==
    LET first == FirstFailure(<<_verify_style_filter_kwargs, _verify_table_name,
                                _verify_stream>>)
    IN  IF ~writer_class.support_split_write THEN "NotSupportedError"
        ELSE IF first # "ok" THEN first
        ELSE IF headers = <<>> /\ is_empty_sequence_matrix(value_matrix)
        THEN "skipped"
        ELSE _verify_header

\* A start of the try block that keeps the caller's is_write_closing_row.
ClosingRowOff_Keeps == UNCHANGED is_write_closing_row

\* self.is_write_closing_row = False, at the start of the try block
ClosingRowOff == is_write_closing_row' = FALSE

\* _write_table_iter up to its for loop.
write_table_iter ==
    /\ pc = "idle"
    /\ value_matrix.kind = "chunks"
    /\ ops_left > 0
    /\ ops_left' = ops_left - 1
    /\ StoreConfig(Config)
    /\ StoreCache(CurrentCache)
    /\ LET raised == _write_table_iter_checks
       IN  IF raised # "ok"
           THEN /\ last' = Did("write_table_iter", raised, <<>>, <<>>, {})
                /\ UNCHANGED <<write_flag_vars, iter_vars>>
           ELSE IF value_matrix.chunks = <<>>
           THEN \* the loop body never runs; the finally clause restores
                /\ last' = Did("write_table_iter", "ok", <<>>, <<>>, {})
                /\ UNCHANGED <<write_flag_vars, iter_vars>>
           ELSE /\ stash' = [is_write_header |-> is_write_header,
                             is_write_opening_row |-> is_write_opening_row,
                             is_write_closing_row |-> is_write_closing_row]
                /\ ClosingRowOff
                /\ _iter_count' = Some(1)
                /\ pc' = "iter"
                /\ work_source' = value_matrix.chunks
                /\ work_index' = 1
                /\ last' = Did("write_table_iter", "running", <<>>, <<>>, {})
                /\ UNCHANGED <<is_write_header, is_write_opening_row>>

\* An is_final_iter without the test that iteration_length is positive.
IsFinalIter_AnyLength(iter_count) == iter_count >= iteration_length

\* An is_final_iter that is one pass late.
IsFinalIter_Late(iter_count) == iteration_length > 0 /\ iter_count > iteration_length

\* is_final_iter = all([self.iteration_length > 0,
\*                      self._iter_count >= self.iteration_length])
IsFinalIter(iter_count) == iteration_length > 0 /\ iter_count >= iteration_length

\* A pass that turns the opening row off and keeps writing the header.
HeaderWritten_KeepsHeader == is_write_opening_row' = FALSE /\ UNCHANGED is_write_header

\* self.is_write_opening_row = False; self.is_write_header = False, after a
\* chunk is written
HeaderWritten == is_write_opening_row' = FALSE /\ is_write_header' = FALSE

\* One pass of the for loop, and the finally clause when the pass is the last
\* one.  failure is what raises in the pass: the renderer, the callback, or
\* nothing; runs is the number of _preprocess() calls of _write_table.
_write_table_iter_pass(failure, runs) ==
    /\ pc = "iter"
    /\ UNCHANGED ops_left
    /\ LET work_matrix == work_source[work_index]
           is_final_iter == IsFinalIter(Get(_iter_count))
           closing_row == is_final_iter \/ is_write_closing_row
           c == PreprocessRuns(runs, __clear_preprocess_status(CurrentCache),
                               work_matrix, _iter_count)
           raised == IF c.err # "ok" THEN c.err
                     ELSE IF failure = "renderer" THEN "RendererError"
                     ELSE IF failure = "callback" THEN "CallbackError"
                     ELSE "ok"
           rendered == c.err = "ok" /\ failure # "renderer"
           out == IF rendered
                  THEN Append(last.out,
                              [table |-> Rendered(c, is_write_header, is_write_opening_row,
                                                  closing_row),
                               value_matrix |-> work_matrix,
                               separator |-> ~is_final_iter])
                  ELSE last.out
           callbacks == IF rendered
                        THEN Append(last.callbacks, <<Get(_iter_count), iteration_length>>)
                        ELSE last.callbacks
           finished == raised # "ok" \/ is_final_iter \/ work_index = Len(work_source)
       IN  /\ StoreConfig([Config EXCEPT !.value_matrix = work_matrix,
                                         !.style_filter_kwargs = KwargsAfter(c)])
           /\ StoreCache(c)
           /\ last' = Ordered(c.order, "write_table_iter",
                              IF finished THEN raised ELSE "running",
                              out, callbacks, c.ran)
           /\ IF finished
              THEN /\ RestoreStash
                   /\ pc' = "idle"
                   /\ UNCHANGED <<stash, work_source, work_index>>
              ELSE /\ is_write_closing_row' = closing_row
                   /\ HeaderWritten
                   /\ _iter_count' = Some(Get(_iter_count) + 1)
                   /\ work_index' = work_index + 1
                   /\ UNCHANGED <<pc, stash, work_source>>

\* A pass under a writer whose _write_table calls _preprocess() once.
write_table_iter_chunk(failure) == _write_table_iter_pass(failure, 1)

\* ------------------------------------------------------------------- inputs

RowsEmpty == Rows(TRUE, <<>>)
RowsTwoCols == Rows(TRUE, << <<V_i1, V_s2>>, <<V_i3, V_s4>> >>)
\* one column that mixes a string, an integer and a decorated string
RowsMixed == Rows(TRUE, << <<V_s4>>, <<V_i1>>, <<V_ansi>> >>)
\* rows that cannot be coerced
RowsBad == Rows(FALSE, <<>>)

RowsChoices == {RowsEmpty, RowsTwoCols, RowsMixed, RowsBad}

\* The table data given to from_tabledata: without a typed matrix, with the
\* typed matrix of its rows, with a matrix typed under a string hint of its
\* own, and a nameless one without headers.
TableDataChoices ==
    {TableData(Some("td"), <<"a">>, RowsMixed.rows, FALSE, <<>>),
     TableData(Some("td"), <<"a">>, RowsMixed.rows, TRUE,
               to_dp_matrix(<<"a">>, <<>>, RowsMixed.rows)),
     TableData(Some("td"), <<"bbb", "c">>, RowsTwoCols.rows, TRUE,
               to_dp_matrix(<<"bbb", "c">>, <<"STRING">>, RowsTwoCols.rows)),
     TableData({}, <<>>, RowsTwoCols.rows, TRUE,
               to_dp_matrix(<<>>, <<>>, RowsTwoCols.rows))}

ChunkWide == Rows(TRUE, << <<V_s4, V_i3>>, <<V_wide, V_i1>> >>)
ChunkNarrow == Rows(TRUE, << <<V_i1, V_i1>> >>)
ChunkEmpty == Rows(TRUE, <<>>)

ChunkChoices == {ChunkWide, ChunkNarrow, ChunkEmpty}

\* Every sequence over S of length at most n.
SeqsUpTo(S, n) == UNION {[1..k -> S] : k \in 0..n}

ChunkSources == {Chunks(cs) : cs \in SeqsUpTo(ChunkChoices, MaxChunks)}

TypeHintChoices == {<<>>, <<"STRING">>}

ColumnStylesChoices == {<<>>, <<Some(StyleCenterPad)>>, <<{}, Some(StyleRightBold)>>}

\* What a concrete writer class declares: a text writer, a writer without
\* split writes, and a writer that requires a table name and headers.
WriterClasses ==
    {[support_split_write |-> TRUE, _is_require_table_name |-> FALSE,
      _is_require_header |-> FALSE],
     [support_split_write |-> FALSE, _is_require_table_name |-> FALSE,
      _is_require_header |-> FALSE],
     [support_split_write |-> TRUE, _is_require_table_name |-> TRUE,
      _is_require_header |-> TRUE]}

\* ------------------------------------------------------------ construction

\* The writer after __init__ with the keyword arguments drawn from the sets
\* given; what has no keyword argument here holds its default.
Constructed(names, hdrs, matrices, lengths, flags, streams, classes, paddings, calls) ==
    /\ table_name \in names
    /\ headers \in hdrs
    /\ value_matrix \in matrices
    /\ type_hints = <<>>
    /\ default_style = StyleDefault
    /\ col_style_list = <<>>
    /\ _style_filters = DEFAULT_STYLE_FILTERS
    /\ _enable_style_filter = TRUE
    /\ style_filter_kwargs = {}
    /\ _check_style_filter_kwargs_funcs = <<>>
    /\ colorize_terminal = TRUE
    /\ enable_ansi_escape = TRUE
    /\ is_formatting_float = TRUE
    /\ is_padding \in paddings
    /\ \E f \in flags :
            /\ is_write_header = f[1]
            /\ is_write_opening_row = f[2]
            /\ is_write_closing_row = f[3]
    /\ iteration_length \in lengths
    /\ stream \in streams
    /\ writer_class \in classes
    /\ _is_complete_table_dp_preprocess = FALSE
    /\ _is_complete_table_property_preprocess = FALSE
    /\ _is_complete_header_preprocess = FALSE
    /\ _is_complete_value_matrix_preprocess = FALSE
    /\ _column_dp_list = <<>>
    /\ _table_headers = <<>>
    /\ _table_value_matrix = <<>>
    /\ _table_value_dp_matrix = <<>>
    /\ _iter_count = {}
    /\ pc = "idle"
    /\ stash = [is_write_header |-> FALSE, is_write_opening_row |-> FALSE,
                is_write_closing_row |-> FALSE]
    /\ work_source = <<>>
    /\ work_index = 0
    /\ last = Did("__init__", "ok", <<>>, <<>>, {})
    /\ ops_left = calls
    /\ shares_filters = FALSE
    /\ shares_kwargs = FALSE
    /\ peer = Twin

\* is_write_header, is_write_opening_row, is_write_closing_row as constructed
DefaultWriteFlags == <<TRUE, FALSE, FALSE>>

Init ==
    /\ closed_streams = {}
    /\ Constructed({"", "t"}, HeaderChoices,
                   {RowsEmpty, RowsTwoCols, Chunks(<<ChunkWide, ChunkNarrow>>)},
                   {-1}, {DefaultWriteFlags}, {"stdout", "None"},
                   {cls \in WriterClasses : cls.support_split_write}, {TRUE}, MaxOps)

Next ==
    \/ \E value \in HeaderChoices : set_headers(value)
    \/ \E value \in RowsChoices : set_value_matrix(value)
    \/ \E value \in TypeHintChoices : set_type_hints(value)
    \/ \E style \in StyleChoices : set_default_style(style)
    \/ \E value \in ColumnStylesChoices : set_column_styles(value)
    \/ \E value \in BOOLEAN : set_colorize_terminal(value)
    \/ \E value \in BOOLEAN : set_enable_ansi_escape(value)
    \/ \E value \in BOOLEAN : set_is_formatting_float(value)
    \/ \E style_filter \in UserFilters : add_style_filter(style_filter)
    \/ clear_theme
    \/ enable_style_filter
    \/ \E clear_filters \in BOOLEAN : disable_style_filter(clear_filters)
    \/ \E column \in ColumnSpecs, style \in {StyleCenterPad, StyleRightBold} :
            set_style(column, style)
    \/ \E call \in ThemeCalls : set_theme(call.theme, call.kwargs)
    \/ \E renderer_fails \in BOOLEAN : write_table(renderer_fails)
    \/ write_table_iter
    \/ \E failure \in {"none", "renderer", "callback"} : write_table_iter_chunk(failure)

Spec == Init /\ [][Next]_vars

\* Style resolution: a table with or without headers, the style setters and
\* the filter chain, and renders.
InitStyle ==
    /\ closed_streams = {}
    /\ Constructed({"t"}, {<<>>, <<"bbb", "c">>}, {RowsTwoCols, RowsMixed},
                   {-1}, {DefaultWriteFlags}, {"stdout"},
                   {cls \in WriterClasses : ~cls._is_require_header}, BOOLEAN, MaxOps + 1)

NextStyle ==
    \/ \E style \in StyleChoices : set_default_style(style)
    \/ \E value \in ColumnStylesChoices : set_column_styles(value)
    \/ \E column \in ColumnSpecs : set_style(column, StyleCenterPad)
    \/ \E style_filter \in UserFilters : add_style_filter(style_filter)
    \/ clear_theme
    \/ enable_style_filter
    \/ \E clear_filters \in BOOLEAN : disable_style_filter(clear_filters)
    \/ write_table(FALSE)

SpecStyle == InitStyle /\ [][NextStyle]_vars

\* The iterative write: one call on a writer constructed with a chunked value
\* matrix.
WriteFlagChoices == {<<TRUE, FALSE, FALSE>>, <<TRUE, TRUE, TRUE>>, <<FALSE, FALSE, TRUE>>}

InitIter ==
    /\ closed_streams = {}
    /\ Constructed({"", "t"}, {<<>>, <<"bbb", "c">>}, ChunkSources,
                   -1..MaxIterLen, WriteFlagChoices, {"stdout", "None"},
                   WriterClasses, {TRUE}, 1)
    /\ table_name = "" => writer_class._is_require_table_name
    /\ stream = "None" => writer_class = [support_split_write |-> TRUE,
                                          _is_require_table_name |-> FALSE,
                                          _is_require_header |-> FALSE]

NextIter ==
    \/ write_table_iter
    \/ \E failure \in {"none", "renderer", "callback"} : write_table_iter_chunk(failure)

SpecIter == InitIter /\ [][NextIter]_vars

\* The width margin: a table or a chunk source, with or without headers,
\* rendered and written in chunks by writers that call _preprocess() once or
\* twice in a pass.
InitMargin ==
    /\ closed_streams = {}
    /\ Constructed({"t"}, {<<>>, <<"bbb", "c">>},
                   {RowsTwoCols} \cup {vm \in ChunkSources : vm.chunks # <<>>},
                   {-1, 2}, {DefaultWriteFlags}, {"stdout"},
                   {cls \in WriterClasses : ~cls._is_require_header}, {TRUE}, MaxOps)

NextMargin ==
    \/ write_table(FALSE)
    \/ write_table_iter
    \/ \E runs \in {1, 2} : _write_table_iter_pass("none", runs)

SpecMargin == InitMargin /\ [][NextMargin]_vars

\* Two writers constructed alike: from_writer, the headers setter, the filter
\* chain operations and renders on either.
InitShare ==
    /\ closed_streams = {}
    /\ Constructed({"t"}, {<<"bbb", "c">>}, {RowsTwoCols}, {-1}, {DefaultWriteFlags},
                   {"stdout"}, {cls \in WriterClasses : cls.support_split_write},
                   {TRUE}, MaxOps + 1)

NextShare ==
    \/ \E is_overwrite_table_name \in BOOLEAN, has_margin \in BOOLEAN :
            from_writer(is_overwrite_table_name, has_margin)
    \/ other_writer
    \/ \E value \in {<<>>, <<"a">>} : set_headers(value)
    \/ \E style_filter \in UserFilters : add_style_filter(style_filter)
    \/ clear_theme
    \/ write_table(FALSE)

SpecShare == InitShare /\ [][NextShare]_vars

\* Table data: a writer that is rendered, given table data, and rendered
\* again.
InitData ==
    /\ closed_streams = {}
    /\ Constructed({"t"}, {<<>>, <<"bbb", "c">>}, {RowsEmpty, RowsTwoCols},
                   {-1}, {DefaultWriteFlags}, {"stdout"},
                   {cls \in WriterClasses : cls.support_split_write}, {TRUE}, MaxOps + 1)

NextData ==
    \/ \E value \in TableDataChoices, is_overwrite_table_name \in BOOLEAN :
            from_tabledata(value, is_overwrite_table_name)
    \/ \E value \in TypeHintChoices : set_type_hints(value)
    \/ \E value \in HeaderChoices : set_headers(value)
    \/ write_table(FALSE)

SpecData == InitData /\ [][NextData]_vars

\* Closing: a writer on each kind of stream, closed, written and given
\* another stream; the standard output may have been closed by its owner.
MaxCloseOps == 3

InitClose ==
    /\ closed_streams \in {{}, {"stdout"}, {"capture"}}
    /\ Constructed({"", "t"}, {<<"a">>}, {RowsTwoCols}, {-1}, {DefaultWriteFlags},
                   StreamChoices, {cls \in WriterClasses : cls.support_split_write},
                   {TRUE}, MaxCloseOps)

NextClose ==
    \/ \E close_raises \in BOOLEAN : close(close_raises)
    \/ \E value \in StreamChoices : set_stream(value)
    \/ write_table(FALSE)

SpecClose == InitClose /\ [][NextClose]_vars

\* ===================================================================== claims

AllValid ==
    /\ _is_complete_table_dp_preprocess
    /\ _is_complete_table_property_preprocess
    /\ _is_complete_header_preprocess
    /\ _is_complete_value_matrix_preprocess

AllInvalid ==
    /\ ~_is_complete_table_dp_preprocess
    /\ ~_is_complete_table_property_preprocess
    /\ ~_is_complete_header_preprocess
    /\ ~_is_complete_value_matrix_preprocess

\* The step is a call of op (every call uses up one of the behaviour's calls).
Calls(op) == ops_left' < ops_left /\ last'.op = op

\* The header and body cells the cache holds.
CachedCells ==
    Range(_table_headers)
        \cup UNION {Range(_table_value_matrix[r]) : r \in 1..Len(_table_value_matrix)}

\* C1: render idempotence.  When write_table succeeds twice in a row, with no
\* call in between, the second call writes what the first wrote and runs no
\* stage body, all four validity flags being true after the first call and
\* after the second.  (Stated for every table, also one with no headers.)
C1_RenderIdempotent ==
    [][(last.op = "write_table" /\ last.result = "ok"
            /\ Calls("write_table") /\ last'.result = "ok")
        => (last'.out = last.out /\ last'.ran = {} /\ AllValid /\ AllValid')]_vars

\* The names of the setters the invalidation claim lists.
SetterOps ==
    {"headers", "value_matrix", "type_hints", "default_style", "column_styles",
     "set_style", "colorize_terminal", "enable_ansi_escape", "add_style_filter",
     "clear_theme", "enable_style_filter", "disable_style_filter", "set_theme"}

\* The step changes a configured value: the headers, the value matrix, the
\* type hints, the style in effect for a column, the default style, the
\* filter chain or its switch, the theme's options, or a terminal flag.
ConfiguredValueChanges ==
    \/ headers' # headers
    \/ value_matrix' # value_matrix
    \/ type_hints' # type_hints
    \/ default_style' # default_style
    \/ \E col_idx \in 0..2 : _get_col_style(col_idx)' # _get_col_style(col_idx)
    \/ _style_filters' # _style_filters
    \/ _enable_style_filter' # _enable_style_filter
    \/ style_filter_kwargs' # style_filter_kwargs
    \/ colorize_terminal' # colorize_terminal
    \/ enable_ansi_escape' # enable_ansi_escape

\* C2: invalidation completeness.  A setter call that changes the configured
\* value leaves all four validity flags false.
C2_InvalidationComplete ==
    [][((\E op \in SetterOps : Calls(op)) /\ ConfiguredValueChanges) => AllInvalid']_vars

\* C5: every resolved style is fully defaulted.  Every cell the cache holds
\* was styled with an alignment and a padding that are set, also when style
\* filtering is disabled.
C5_FullyDefaulted ==
    \A cell \in CachedCells : cell.style.align # "None" /\ cell.style.padding # {}

\* The table is empty: no headers, no values, no cached typed matrix.
EmptyTable ==
    headers = <<>> /\ is_empty_sequence_matrix(value_matrix) /\ _table_value_dp_matrix = <<>>

\* write_table did nothing: no error, nothing written, no stage body run.
SilentSkip(did) == did.result = "skipped" /\ did.out = <<>> /\ did.ran = {}

\* The checks write_table makes before it looks at the data pass: the keyword
\* arguments satisfy every registered check, a required table name is there,
\* and the stream is not null.
EarlierChecksPass ==
    /\ \A i \in 1..Len(_check_style_filter_kwargs_funcs) :
            ~CheckFails(_check_style_filter_kwargs_funcs[i], style_filter_kwargs)
    /\ ~(writer_class._is_require_table_name /\ table_name = "")
    /\ stream # "None"

\* C10 as stated: whenever the table is empty, write_table writes nothing and
\* raises nothing.
C10_EmptyRenderAlways ==
    [][(Calls("write_table") /\ EmptyTable) => SilentSkip(last')]_vars

\* C10 (amended): whenever the table is empty and the earlier checks pass
\* (keyword arguments, required table name, stream), write_table writes
\* nothing, raises nothing and does not invoke the renderer.
C10_EmptyRender ==
    [][(Calls("write_table") /\ EmptyTable /\ EarlierChecksPass) => SilentSkip(last')]_vars

C10_Witness ==
    /\ last.op = "write_table" /\ SilentSkip(last)
    /\ EmptyTable /\ EarlierChecksPass
    /\ writer_class._is_require_header

\* The per-column style when one is set for the column, else the default style.
ColumnOrDefaultStyle(col_idx) ==
    IF col_idx + 1 <= Len(col_style_list) /\ col_style_list[col_idx + 1] # {}
    THEN Get(col_style_list[col_idx + 1])
    ELSE default_style

\* What each filter of the chain returns for a cached cell, in chain order.
FilterResults(cell) ==
    [i \in 1..Len(_style_filters) |->
        ApplyFilter(_style_filters[i],
                    [row |-> cell.row, col |-> cell.col,
                     default_style |-> ColumnOrDefaultStyle(cell.col)])]

\* The positions of the chain whose filter returns a style for the cell.
Matching(cell) == {i \in 1..Len(_style_filters) : FilterResults(cell)[i] # {}}

FirstMatching(cell) == CHOOSE i \in Matching(cell) : \A j \in Matching(cell) : i <= j

\* The cell's style is the style source with its unset attributes filled:
\* the attributes source sets are used as they are.
FilledFrom(cell, source) ==
    /\ cell.style.font_weight = source.font_weight
    /\ source.padding # {} => cell.style.padding = source.padding
    /\ (source.align # "None" /\ ~(source.align = "AUTO" /\ cell.row >= 0))
            => cell.style.align = source.align

\* C3: style precedence.  Every cell is styled from the style of the first
\* filter that returns one for it; when no filter returns a style (none
\* matches, or filtering is disabled and no filter is called), from the
\* per-column style if the column has one; otherwise from the default style.
C3_StylePrecedence ==
    \A cell \in CachedCells :
        IF _enable_style_filter /\ Matching(cell) # {}
        THEN FilledFrom(cell, Get(FilterResults(cell)[FirstMatching(cell)]))
        ELSE IF cell.col + 1 <= Len(col_style_list) /\ col_style_list[cell.col + 1] # {}
        THEN FilledFrom(cell, Get(col_style_list[cell.col + 1]))
        ELSE FilledFrom(cell, default_style)

\* A body cell styled by a filter beside a body cell styled by its column's
\* style, and a header cell styled by the default filter.
C3_Witness ==
    \E c1, c2, c3 \in CachedCells :
        /\ c1.row >= 0 /\ c1.col = 0 /\ c1.calls = <<"col0_filter">>
        /\ c1.style.align = "LEFT"
        /\ c2.row >= 0 /\ c2.col = 1 /\ Matching(c2) = {}
        /\ col_style_list = <<{}, Some(StyleRightBold)>>
        /\ c2.style.font_weight = "BOLD" /\ c2.style.align = "RIGHT"
        /\ c3.row = HEADER_ROW /\ c3.col = 1 /\ c3.style.align = "CENTER"

\* The filters called for each cached cell: the chain from its head up to the
\* first filter that returns a style, and the whole chain when none does.
CalledInChainOrder ==
    \A cell \in CachedCells :
        IF ~_enable_style_filter THEN cell.calls = <<>>
        ELSE IF Matching(cell) # {}
        THEN /\ cell.calls = SubSeq(_style_filters, 1, FirstMatching(cell))
             /\ FilledFrom(cell, Get(FilterResults(cell)[FirstMatching(cell)]))
        ELSE /\ cell.calls = _style_filters
             /\ FilledFrom(cell, ColumnOrDefaultStyle(cell.col))

\* C4: filter chain order.  add_style_filter puts the filter in front of the
\* chain, and for every cell the filters are called from the front of the
\* chain (the most recently added first) up to the first one that returns a
\* style, which decides the cell's style; no filter behind it is called; when
\* every filter returns None the column's or the default style is used.
C4_FilterChainOrder ==
    [][/\ Calls("add_style_filter")
            => \E f \in UserFilters : _style_filters' = <<f>> \o _style_filters
       /\ CalledInChainOrder']_vars

\* Two filters added, the later one returns None for a body cell and the
\* earlier one styles it; the default filter behind them is not called.
C4_Witness ==
    /\ _style_filters = <<"none_filter", "body_filter", "header_style_filter">>
    /\ \E cell \in CachedCells :
            /\ cell.row >= 0
            /\ cell.calls = <<"none_filter", "body_filter">>
            /\ cell.style.padding = Some(2)

\* The (k, N) arguments of the first n write_callback calls.
CallbackArgs(n) == [k \in 1..n |-> <<k, iteration_length>>]

\* C6: iteration termination.  With iteration_length = N > 0 and a chunk
\* source of at least N chunks, an iterative write that nothing fails renders
\* exactly the first N chunks in source order, the Nth with the closing row
\* and no other with it, and calls the callback N times with (1, N) .. (N, N);
\* at no moment of the write is a chunk after the Nth rendered.
C6_IterationTermination ==
    (/\ last.op = "write_table_iter"
     /\ iteration_length > 0
     /\ Len(work_source) >= iteration_length)
        => /\ Len(last.out) <= iteration_length
           /\ \A k \in 1..Len(last.out) :
                /\ last.out[k].value_matrix = work_source[k]
                /\ last.out[k].table.closing_row = (k = iteration_length)
           /\ last.callbacks = CallbackArgs(Len(last.out))
           /\ (pc = "idle" /\ last.result = "ok")
                => Len(last.out) = iteration_length

\* A finished write of two chunks out of a source of three.
C6_Witness ==
    /\ pc = "idle" /\ last.op = "write_table_iter" /\ last.result = "ok"
    /\ iteration_length = 2 /\ Len(work_source) = 3
    /\ Len(last.out) = 2 /\ last.out[2].table.closing_row
    /\ last.callbacks = <<<<1, 2>>, <<2, 2>>>>

WriteFlags ==
    [is_write_header |-> is_write_header,
     is_write_opening_row |-> is_write_opening_row,
     is_write_closing_row |-> is_write_closing_row]

\* C7: restoration.  An iterative write that ends before its loop (unsupported
\* renderer, failed verification, empty data, empty source) leaves the three
\* write flags as they were and the iteration counter None; one that enters
\* the loop remembers the flags of before the call for its whole duration, and
\* when it ends (completion, renderer failure, callback failure) the flags
\* are those again and the iteration counter is None.
C7_Restoration ==
    [][/\ (pc = "idle" /\ pc' = "idle" /\ Calls("write_table_iter"))
            => (WriteFlags' = WriteFlags /\ _iter_count' = {})
       /\ (pc = "idle" /\ pc' = "iter") => stash' = WriteFlags
       /\ (pc = "iter" /\ pc' = "iter") => stash' = stash
       /\ (pc = "iter" /\ pc' = "idle")
            => (WriteFlags' = stash /\ _iter_count' = {})]_vars

\* A write that the callback ended in its second pass, after the passes had
\* switched the header and the opening row off, with the flags back.
C7_Witness ==
    /\ pc = "idle" /\ last.op = "write_table_iter" /\ last.result = "CallbackError"
    /\ Len(last.out) = 2
    /\ WriteFlags = [is_write_header |-> TRUE, is_write_opening_row |-> TRUE,
                     is_write_closing_row |-> TRUE]
    /\ _iter_count = {}

\* C8: column width monotonicity across chunks.  In every pass of an iterative
\* write after the first, each column is at least as wide after the pass as it
\* was after the pass before.
C8_WidthMonotone ==
    [][(pc = "iter" /\ work_index >= 2)
        => \A i \in 1..Len(_column_dp_list) :
                /\ i <= Len(_column_dp_list')
                /\ _column_dp_list'[i].ascii_char_width
                        >= _column_dp_list[i].ascii_char_width]_vars

\* Nothing of the writer changes in the step but the record of the call.
NothingChanges ==
    UNCHANGED <<config_vars, write_flag_vars, status_vars, data_vars, iter_vars>>

SilentReturn ==
    /\ last'.result \in {"skipped", "ok"}
    /\ last'.out = <<>> /\ last'.callbacks = <<>> /\ last'.ran = {}
    /\ NothingChanges

NotSupportedFirst ==
    (Calls("write_table_iter") /\ ~writer_class.support_split_write)
        => (last'.result = "NotSupportedError" /\ NothingChanges)

EmptyIterTable ==
    /\ writer_class.support_split_write
    /\ headers = <<>>
    /\ is_empty_sequence_matrix(value_matrix)

\* C9 as stated: an unsupported renderer fails with NotSupported before
\* anything else; with headers and value matrix both empty the iterative
\* write returns silently.
C9_PreconditionsAlways ==
    [][/\ NotSupportedFirst
       /\ (Calls("write_table_iter") /\ EmptyIterTable) => SilentReturn]_vars

\* C9: iterative write preconditions.  An unsupported renderer fails with
\* NotSupported before any other check and with no state change; with a
\* renderer that supports split writes, and the filter keyword arguments, the
\* table name and the stream verified, headers and value matrix both empty
\* make the iterative write return silently: no chunk rendered, no callback,
\* no flag changed.
C9_Preconditions ==
    [][/\ NotSupportedFirst
       /\ (Calls("write_table_iter") /\ EmptyIterTable /\ EarlierChecksPass)
            => SilentReturn]_vars

\* The silent return for a renderer that requires headers and a table name,
\* which a write reaching _verify_header would have refused.
C9_Witness ==
    /\ last.op = "write_table_iter" /\ pc = "idle"
    /\ headers = <<>> /\ is_empty_sequence_matrix(value_matrix)
    /\ writer_class._is_require_header
    /\ last.result = "skipped"
    /\ WriteFlags = [is_write_header |-> TRUE, is_write_opening_row |-> TRUE,
                     is_write_closing_row |-> TRUE]

\* ------------------------------------------------------------------ C11..C20

KwargsChecksPass ==
    \A i \in 1..Len(_check_style_filter_kwargs_funcs) :
        ~CheckFails(_check_style_filter_kwargs_funcs[i], style_filter_kwargs)

TableNameMissing == writer_class._is_require_table_name /\ table_name = ""

HeaderMissing == writer_class._is_require_header /\ headers = <<>>

\* The exceptions write_table lets through to its caller.
Raised(did) == did.result \notin {"ok", "skipped", "running"}

\* write_table absorbs nothing but the empty table (silent skip) and the
\* empty value matrix under headers (the render goes on, header only).
AbsorbsOnlyEmpty ==
    /\ last'.result = "skipped" => EmptyTable
    /\ (EarlierChecksPass /\ ~HeaderMissing /\ ~EmptyTable
            /\ is_empty_sequence_matrix(value_matrix))
        => /\ last'.result # "skipped" /\ last'.result # "EmptyValueError"
           /\ last'.result = "ok"
                => (Len(last'.out) = 1 /\ last'.out[1].table.body = <<>>)

\* C11 as stated: a null stream always ends write_table in the stream error,
\* a missing required table name or header always reaches the caller.
C11_PropagationAlways ==
    [][Calls("write_table")
        => /\ stream = "None" => last'.result = "OSError"
           /\ TableNameMissing => Raised(last')
           /\ HeaderMissing => Raised(last')
           /\ AbsorbsOnlyEmpty]_vars

\* C11: failure propagation.  write_table always fails on a null stream: with
\* the stream error when the keyword-argument and table-name verifications
\* before it pass, with theirs otherwise.  A missing required table name is
\* raised when the keyword-argument verification passes (which raises
\* otherwise).  A missing required header is raised when the verifications
\* before it pass and the table is not the empty table, which is skipped
\* silently.  Nothing is absorbed but the empty table and the empty value
\* matrix under headers.
C11_Propagation ==
    [][Calls("write_table")
        => /\ stream = "None"
                => /\ Raised(last')
                   /\ (KwargsChecksPass /\ ~TableNameMissing)
                        => last'.result = "OSError"
           /\ TableNameMissing
                => /\ Raised(last')
                   /\ KwargsChecksPass => last'.result = "EmptyTableNameError"
           /\ (HeaderMissing /\ EarlierChecksPass /\ ~EmptyTable)
                => last'.result = "ValueError"
           /\ AbsorbsOnlyEmpty]_vars

\* write_table has failed on a null stream though the table was written
\* before with the cache still valid.
C11_Witness ==
    /\ last.op = "write_table" /\ last.result = "OSError"
    /\ stream = "None" /\ headers # <<>> /\ ~TableNameMissing
    /\ last.out = <<>> /\ last.ran = {}

\* The column a set_style argument names among the headers, None when it
\* names none: an index below the number of headers, or a header's name.
NamedColumn(column) ==
    IF column.is_int
    THEN IF column.index < Len(headers) THEN Some(column.index) ELSE {}
    ELSE IF \E i \in 1..Len(headers) : headers[i] = column.name
    THEN Some((CHOOSE i \in 1..Len(headers) :
                /\ headers[i] = column.name
                /\ \A j \in 1..(i - 1) : headers[j] # column.name) - 1)
    ELSE {}

\* The argument is beyond every header and every entry of the style list.
NamesNothing(column) ==
    /\ NamedColumn(column) = {}
    /\ column.is_int => column.index >= Len(col_style_list)

SetStyleSets(column, style) ==
    /\ last'.result = "ok"
    /\ Len(col_style_list') >= Len(headers)
    /\ col_style_list'[Get(NamedColumn(column)) + 1] = Some(style)
    /\ AllInvalid'

\* C12: set_style.  With a column that is an index or a header name of a
\* column, the style list afterwards has an entry per header, the column's
\* entry is the style given and the four flags are false; with a column that
\* is neither, the call raises ValueError.
C12_SetStyle ==
    [][Calls("set_style")
        => LET arg == Get(last'.arg)
           IN  /\ NamedColumn(arg.column) # {} => SetStyleSets(arg.column, arg.style)
               /\ NamesNothing(arg.column) => last'.result = "ValueError"]_vars

\* The theme names a plugin is installed for.
InstalledThemes == {"altrow", "colsep"}

C14_ClearThemeRemovesAll ==
    [][/\ Calls("clear_theme") => _style_filters' = <<>>
       /\ (last.op = "clear_theme" /\ Calls("write_table"))
            => \A cell \in CachedCells' : cell.calls = <<>>]_vars

\* C15: disable_style_filter disables the filters whatever clear_filters is:
\* filtering is off when the call returns, it stays off until
\* enable_style_filter is called, and while it is off no cell is styled with
\* a filter called.
C15_DisableForBoth ==
    [][/\ Calls("disable_style_filter") => ~_enable_style_filter'
       /\ (~_enable_style_filter /\ ~Calls("enable_style_filter"))
            => ~_enable_style_filter'
       /\ ~_enable_style_filter'
            => \A cell \in CachedCells' : cell.calls = <<>>]_vars

CacheCleared ==
    /\ AllInvalid'
    /\ _column_dp_list' = <<>> /\ _table_headers' = <<>>
    /\ _table_value_matrix' = <<>> /\ _table_value_dp_matrix' = <<>>

\* C16 as stated: every call of add_style_filter, clear_theme,
\* enable_style_filter or disable_style_filter leaves the four flags false.
C16_AlwaysInvalidates ==
    [][(\E op \in {"add_style_filter", "clear_theme", "enable_style_filter",
                   "disable_style_filter"} : Calls(op)) => AllInvalid']_vars

\* C16: add_style_filter always invalidates the cache; clear_theme, and
\* disable_style_filter(clear_filters=True) which is clear_theme, invalidate
\* it whenever the chain holds a filter; enable_style_filter and
\* disable_style_filter(clear_filters=False) invalidate it when they change
\* whether filtering is enabled, and leave the flags and the cached data as
\* they are when they do not.
C16_InvalidatesOnChange ==
    [][/\ Calls("add_style_filter") => CacheCleared
       /\ (Calls("clear_theme") /\ _style_filters # <<>>) => CacheCleared
       /\ Calls("enable_style_filter")
            => IF ~_enable_style_filter THEN CacheCleared
               ELSE UNCHANGED <<status_vars, data_vars>>
       /\ Calls("disable_style_filter")
            => IF Get(last'.arg).clear_filters
               THEN _style_filters # <<>> => CacheCleared
               ELSE IF _enable_style_filter THEN CacheCleared
               ELSE UNCHANGED <<status_vars, data_vars>>]_vars

\* A filter added after a table with headers was written (the write left
\* "writer" among the keyword arguments): the cache of the write is gone.
C16_Witness ==
    /\ last.op = "add_style_filter"
    /\ "writer" \in style_filter_kwargs /\ headers # <<>>
    /\ AllInvalid
    /\ _column_dp_list = <<>> /\ _table_headers = <<>>

\* The streams a writer does not own: the standard process streams and the
\* harness streams.
NotOwnedStreams == {"stdout", "capture"}

StreamKept == stream' = stream /\ closed_streams' = closed_streams

\* close is called on another stream than None: the stream is detached, and
\* closed when it has a close method that does not raise.
StreamReleased ==
    /\ stream' = "None"
    /\ last'.result = "ok" => stream \in closed_streams'
    /\ last'.result = "warning" => (stream \notin {"file", "stdout"})

CloseOfNone ==
    (Calls("close") /\ stream = "None")
        => (StreamKept /\ last'.result = "ok" /\ NothingChanges)

\* C17 as stated: close never closes or detaches a standard or harness
\* stream, closes and detaches any other stream, does nothing on the null
\* stream, and write_table on a detached stream fails with the stream error.
C17_CloseAlways ==
    [][/\ (Calls("close") /\ stream \in NotOwnedStreams) => StreamKept
       /\ (Calls("close") /\ stream \notin NotOwnedStreams \cup {"None"})
            => StreamReleased
       /\ CloseOfNone
       /\ (Calls("write_table") /\ stream = "None") => last'.result = "OSError"]_vars

\* C17: close().  A standard process stream that is not already closed, and a
\* harness stream, are never closed and stay attached; any other stream, a
\* standard stream its owner has closed included, is closed and the writer's
\* stream becomes None, also when the stream has no close method; close on
\* the null stream does nothing, so close is idempotent; with the stream
\* None, write_table fails until a stream is attached: with the stream error
\* when the verifications before the stream's pass.
C17_Close ==
    [][/\ (Calls("close") /\ stream = "stdout" /\ stream \notin closed_streams)
            => StreamKept
       /\ (Calls("close") /\ stream = "capture") => StreamKept
       /\ (Calls("close") /\ (stream \notin NotOwnedStreams \cup {"None"}
                              \/ (stream = "stdout" /\ stream \in closed_streams)))
            => StreamReleased
       /\ CloseOfNone
       /\ (last.op = "close" /\ Calls("close"))
            => (StreamKept /\ last'.result \in {"ok"})
       /\ (Calls("write_table") /\ stream = "None")
            => /\ Raised(last')
               /\ (KwargsChecksPass /\ ~TableNameMissing) => last'.result = "OSError"
       /\ (stream = "None" /\ stream' # "None") => Calls("set_stream")]_vars

\* The writer's file was closed and detached by close, and the write_table
\* after it failed with the stream error.
C17_Witness ==
    /\ last.op = "write_table" /\ last.result = "OSError"
    /\ stream = "None" /\ closed_streams = {"file"}

\* The typed value and the column of a cached body cell.
ValueOf(cell) == _table_value_dp_matrix[cell.row + 1][cell.col + 1]

ColumnOf(cell) == _column_dp_list[cell.col + 1]

\* The alignment the data gives a body cell: the value's own in a string
\* column when the value is a number or a decorated string, else the column's.
DataAlign(cell) ==
    IF ColumnOf(cell).typecode = "STRING"
       /\ (ValueOf(cell).typecode \in {"INTEGER", "REAL_NUMBER"} \/ ValueOf(cell).ansi)
    THEN ValueOf(cell).align
    ELSE ColumnOf(cell).align

HeaderOnlyFilter == _enable_style_filter /\ _style_filters = DEFAULT_STYLE_FILTERS

\* C18 as stated: with the header-only filter every header cell is centred
\* and every body cell has the alignment its data gives it.
C18_HeaderOnlyAlways ==
    HeaderOnlyFilter
        => \A cell \in CachedCells :
                IF cell.row = HEADER_ROW THEN cell.style.align = "CENTER"
                ELSE cell.style.align = DataAlign(cell)

\* C18: header-only filter.  With the filter that centres the header row and
\* returns None otherwise, every header cell is centred; a body cell has the
\* alignment its data gives it when its column's style (the per-column style,
\* else the default style) sets no alignment or the automatic one, and that
\* style's alignment when it sets one.
C18_HeaderOnly ==
    HeaderOnlyFilter
        => \A cell \in CachedCells :
                IF cell.row = HEADER_ROW THEN cell.style.align = "CENTER"
                ELSE IF ColumnOrDefaultStyle(cell.col).align \in {"None", "AUTO"}
                THEN cell.style.align = DataAlign(cell)
                ELSE cell.style.align = ColumnOrDefaultStyle(cell.col).align

\* Centred headers over a string column whose number and decorated string are
\* to the right and whose plain string is to the left.
C18_Witness ==
    /\ HeaderOnlyFilter /\ default_style = StyleDefault /\ col_style_list = <<>>
    /\ \E h, c1, c2, c3 \in CachedCells :
            /\ h.row = HEADER_ROW /\ h.style.align = "CENTER"
            /\ c1.row >= 0 /\ ColumnOf(c1).typecode = "STRING"
            /\ ValueOf(c1).typecode = "INTEGER" /\ c1.style.align = "RIGHT"
            /\ c2.row >= 0 /\ c2.col = c1.col /\ ValueOf(c2).ansi
            /\ c2.style.align = "RIGHT"
            /\ c3.row >= 0 /\ c3.col = c1.col /\ ValueOf(c3).typecode = "STRING"
            /\ ~ValueOf(c3).ansi /\ c3.style.align = "LEFT"

\* write_table reaches stage 1 with a value matrix that cannot be coerced:
\* the verifications pass and the stage's flag is false.
CoercionFails ==
    /\ Calls("write_table")
    /\ ~value_matrix.ok
    /\ EarlierChecksPass /\ ~HeaderMissing
    /\ ~_is_complete_table_dp_preprocess

\* C19: type coercion failure in stage 1 does not abort the render.  The
\* typed matrix becomes empty, the columns are those of the headers alone,
\* stage 1 is marked valid, no exception of the preprocessing reaches the
\* caller, and the other stages run: there is a header string per header and
\* no body row.
C19_CoercionFailure ==
    [][CoercionFails
        => /\ _table_value_dp_matrix' = <<>>
           /\ Len(_column_dp_list') = Len(headers)
           /\ \A i \in 1..Len(headers) :
                _column_dp_list'[i].ascii_char_width >= Len(headers[i])
           /\ _is_complete_table_dp_preprocess'
           /\ last'.result \in {"ok", "RendererError"}
           /\ {"table_dp", "header", "value_matrix"} \subseteq last'.ran
           /\ _is_complete_header_preprocess' /\ _is_complete_value_matrix_preprocess'
           /\ Len(_table_headers') = Len(headers)
           /\ \A i \in 1..Len(headers) : _table_headers'[i].len = Len(headers[i])
           /\ _table_value_matrix' = <<>>]_vars

\* A table with headers and rows that cannot be coerced was written: the
\* headers were rendered, with no body.
C19_Witness ==
    /\ last.op = "write_table" /\ last.result = "ok" /\ ~value_matrix.ok
    /\ "table_dp" \in last.ran
    /\ headers = <<"bbb", "c">> /\ Len(_table_headers) = 2
    /\ Len(last.out) = 1 /\ Len(last.out[1].table.header) = 2
    /\ last.out[1].table.body = <<>>
    /\ _table_value_dp_matrix = <<>>

StageOrder == <<"table_dp", "table_property", "header", "value_matrix">>

\* The validity flag of each stage, by the stage's name.
StageFlag ==
    [table_dp |-> _is_complete_table_dp_preprocess,
     table_property |-> _is_complete_table_property_preprocess,
     header |-> _is_complete_header_preprocess,
     value_matrix |-> _is_complete_value_matrix_preprocess]

\* The stages of StageOrder from position i on whose flag is false in flags.
RECURSIVE InvalidFrom(_, _)
InvalidFrom(i, flags) ==
    IF i > Len(StageOrder) THEN <<>>
    ELSE IF flags[StageOrder[i]] THEN InvalidFrom(i + 1, flags)
    ELSE <<StageOrder[i]>> \o InvalidFrom(i + 1, flags)

IsPrefix(a, b) == Len(a) <= Len(b) /\ a = SubSeq(b, 1, Len(a))

AllFalse ==
    [table_dp |-> FALSE, table_property |-> FALSE, header |-> FALSE,
     value_matrix |-> FALSE]

\* The step runs the preprocessing with the flags given when it starts.
RunsFrom(flags) ==
    /\ IsPrefix(last'.order, InvalidFrom(1, flags))
    /\ last'.result \in {"ok", "RendererError", "CallbackError", "running"}
            => last'.order = InvalidFrom(1, flags)
    /\ flags.table_dp => _table_value_dp_matrix' = _table_value_dp_matrix
    /\ (flags.table_dp /\ flags.table_property) => _column_dp_list' = _column_dp_list
    /\ flags.header => _table_headers' = _table_headers
    /\ flags.value_matrix => _table_value_matrix' = _table_value_matrix

\* C20: stage ordering.  A preprocessing run executes, in the order typed
\* matrix, column properties, header, body, the bodies of exactly the stages
\* whose flag is false (up to the stage that raises, if one does), and a
\* stage whose flag is true leaves its cached data as it is.  write_table
\* runs it with the flags as they are, a pass of the iterative write after
\* clearing the four flags.
C20_StageOrdering ==
    [][/\ (Calls("write_table") /\ ~Raised(last') /\ last'.result # "skipped")
            => RunsFrom(StageFlag)
       /\ (Calls("write_table") /\ last'.order # <<>>) => RunsFrom(StageFlag)
       /\ pc = "iter" => RunsFrom(AllFalse)]_vars

\* A write_table on a headerless table written before: the column stage, left
\* invalid by the first write, is the one body that runs, between two valid
\* stages and before another whose data stay.
C20_Witness ==
    /\ last.op = "write_table" /\ last.result = "ok"
    /\ last.order = <<"table_property">>
    /\ _is_complete_table_dp_preprocess /\ _is_complete_value_matrix_preprocess
    /\ _table_value_matrix # <<>>

\* ------------------------------------------------------------------ C21..C30

\* C21: the dependency chain of the validity flags.  In every reachable state
\* a flag is true only if the flag of every earlier stage is true: body valid
\* implies header valid implies column-property valid implies typed-matrix
\* valid.
C21_DependencyChain ==
    /\ _is_complete_value_matrix_preprocess => _is_complete_header_preprocess
    /\ _is_complete_header_preprocess => _is_complete_table_property_preprocess
    /\ _is_complete_table_property_preprocess => _is_complete_table_dp_preprocess

\* The writer has no header typed row: to_header_dp_list() is empty.
NoHeaderRow == to_header_dp_list(headers) = <<>>

\* C22: header materialization without a header typed row.  A preprocessing
\* run on a writer with no header typed row does not run the body of the
\* header stage, and the stage's flag is false after the run.
C22_HeaderStageNoOp ==
    [][(Calls("write_table") /\ last'.result = "ok" /\ NoHeaderRow)
        => /\ "header" \notin last'.ran
           /\ ~_is_complete_header_preprocess']_vars

\* C22 as amended: without a header typed row the header stage runs like any
\* other time its flag is false: a run that starts with the flag false
\* executes the stage and caches an empty header row, and the flag is true
\* after every run.
C22_HeaderStageEmpty ==
    [][(Calls("write_table") /\ last'.result = "ok" /\ NoHeaderRow)
        => /\ _is_complete_header_preprocess'
           /\ ~_is_complete_header_preprocess
                => /\ "header" \in last'.ran
                   /\ _table_headers' = <<>>]_vars

\* A headerless table rendered, with its rows: the header stage ran and is valid.
C22_Witness ==
    /\ last.op = "write_table" /\ last.result = "ok" /\ NoHeaderRow
    /\ "header" \in last.ran
    /\ _is_complete_header_preprocess /\ _table_headers = <<>>
    /\ _table_value_matrix # <<>>

\* The iterative write rendered at least one chunk; stash then holds the
\* write flags the caller had set.
IterRendered == last.op = "write_table_iter" /\ last.out # <<>>

\* C24: the header is emitted once.  In an iterative write the first chunk is
\* rendered with the caller's is_write_header and is_write_opening_row, and
\* every chunk after the first with both false.
C24_HeaderOnce ==
    IterRendered
        => \A k \in 1..Len(last.out) :
            LET table == last.out[k].table
            IN  /\ table.opening_row = (k = 1 /\ stash.is_write_opening_row)
                /\ table.header # <<>> => (k = 1 /\ stash.is_write_header)
                /\ (k = 1 /\ stash.is_write_header /\ headers # <<>>)
                        => Len(table.header) = Len(headers)

\* Two chunks written by a caller who asked for the header and the opening
\* row: the first chunk has both, the second neither.
C24_Witness ==
    /\ IterRendered /\ pc = "idle" /\ last.result = "ok"
    /\ Len(last.out) = 2
    /\ last.out[1].table.header # <<>> /\ last.out[1].table.opening_row
    /\ last.out[2].table.header = <<>> /\ ~last.out[2].table.opening_row

\* is_final for chunk number k (1-based)
FinalChunk(k) == iteration_length > 0 /\ k >= iteration_length

\* C25: closing row and separators.  Chunk number k of an iterative write is
\* rendered with the closing row if and only if iteration_length > 0 and
\* k >= iteration_length, whatever is_write_closing_row the caller had set,
\* and a value-row separator follows the chunk if and only if it is not final.
C25_ClosingRow ==
    last.op = "write_table_iter"
        => \A k \in 1..Len(last.out) :
            /\ last.out[k].table.closing_row = FinalChunk(k)
            /\ last.out[k].separator = ~FinalChunk(k)

\* A caller who had set is_write_closing_row, two chunks with
\* iteration_length = 2: a separator after the first, the closing row with
\* the second.
C25_Witness ==
    /\ IterRendered /\ pc = "idle" /\ last.result = "ok"
    /\ stash.is_write_closing_row /\ iteration_length = 2
    /\ Len(last.out) = 2
    /\ ~last.out[1].table.closing_row /\ last.out[1].separator
    /\ last.out[2].table.closing_row /\ ~last.out[2].separator

\* C26: source exhaustion.  With iteration_length <= 0, or iteration_length
\* above the number M of chunks of the source, an iterative write that
\* nothing fails renders every chunk once in source order and returns, calls
\* the callback with (k, iteration_length) for k = 1..M, and renders no chunk
\* with the closing row.
C26_SourceExhaustion ==
    (/\ last.op = "write_table_iter"
     /\ iteration_length <= 0 \/ Len(work_source) < iteration_length)
        => /\ Len(last.out) <= Len(work_source)
           /\ \A k \in 1..Len(last.out) :
                /\ last.out[k].value_matrix = work_source[k]
                /\ ~last.out[k].table.closing_row
           /\ last.callbacks = CallbackArgs(Len(last.out))
           /\ (pc = "idle" /\ last.result = "ok" /\ work_source # <<>>)
                => Len(last.out) = Len(work_source)

\* A source of two chunks written to its end under iteration_length = 3.
C26_Witness ==
    /\ pc = "idle" /\ last.op = "write_table_iter" /\ last.result = "ok"
    /\ iteration_length = 3 /\ Len(work_source) = 2
    /\ Len(last.out) = 2
    /\ last.callbacks = <<<<1, 3>>, <<2, 3>>>>

\* C28: writer reuse after an iterative write.  When the loop of an iterative
\* write ends, by return or by an exception, the writer's value matrix is the
\* chunk sequence the caller supplied before the call.
C28_ValueMatrixRestored ==
    [][(pc = "iter" /\ pc' = "idle") => value_matrix' = Chunks(work_source)]_vars

\* C27: per-chunk invalidation.  The header strings cached after the
\* preprocessing of a later chunk of an iterative write are the header strings
\* cached after the chunk before it, and so those computed for chunk 1.
C27_HeaderStable ==
    [][(pc = "iter" /\ work_index >= 2) => _table_headers' = _table_headers]_vars

\* The columns as the typed-matrix stage leaves them for the matrix vm.
StageOneColumns(vm) ==
    to_column_dp_list(headers,
                      IF vm.ok THEN to_dp_matrix(headers, type_hints, vm.rows) ELSE <<>>,
                      _column_dp_list)

\* The columns the column-property stage makes of cols outside an iterative
\* write, where no margin applies.
WithoutMargin(cols) ==
    _preprocess_table_property(
        [CurrentCache EXCEPT !.column_dp_list = cols, !.tprop = FALSE], {}).column_dp_list

\* The step leaves every column wider than a preprocessing without margin
\* would, by a quarter of the width the typed-matrix stage gave the column
\* when margin is TRUE, and as wide when it is FALSE.
WidthsAre(vm, margin) ==
    LET cols == StageOneColumns(vm)
        plain == WithoutMargin(cols)
    IN  /\ Len(_column_dp_list') = Len(cols)
        /\ \A i \in 1..Len(cols) :
                _column_dp_list'[i].ascii_char_width - plain[i].ascii_char_width
                    = IF margin THEN CeilQuarter(cols[i].ascii_char_width) ELSE 0

\* C23: the width margin.  The pass over the first chunk of an iterative
\* write widens every column by ceil(0.25 * width) once, however often the
\* pass runs the preprocessing and with or without headers; a pass over a
\* later chunk and a non-iterative render widen no column by the margin.
C23_MarginOnce ==
    [][/\ (pc = "iter" /\ last'.result \in {"ok", "running"})
            => WidthsAre(work_source[work_index], work_index = 1)
       /\ (Calls("write_table") /\ last'.result = "ok"
                /\ ~_is_complete_table_dp_preprocess)
            => WidthsAre(value_matrix, FALSE)]_vars

\* The setters that compare the value with the current one, each with what
\* it sets; TRUE when the step is a call of one of them with the value the
\* writer has.
SetToCurrentValue ==
    \/ Calls("type_hints") /\ type_hints' = type_hints
    \/ Calls("default_style") /\ default_style' = default_style
    \/ Calls("column_styles") /\ col_style_list' = col_style_list
    \/ Calls("colorize_terminal") /\ colorize_terminal' = colorize_terminal
    \/ Calls("enable_ansi_escape") /\ enable_ansi_escape' = enable_ansi_escape
    \/ Calls("is_formatting_float") /\ is_formatting_float' = is_formatting_float

\* C29: the no-op short-circuit of the setters.  Setting type_hints,
\* default_style, column_styles, colorize_terminal, enable_ansi_escape or
\* is_formatting_float to the value it has leaves the four flags and the
\* cached data as they are; assigning value_matrix clears the flags and the
\* cached data, also when the value assigned is the current one.
C29_NoOpShortCircuit ==
    [][/\ SetToCurrentValue => UNCHANGED <<status_vars, data_vars>>
       /\ Calls("value_matrix") => CacheCleared]_vars

\* A rendered table whose is_formatting_float was then set to the value it
\* had: the cache is still valid and filled.
C29_Witness ==
    /\ last.op = "is_formatting_float"
    /\ AllValid /\ _table_value_matrix # <<>> /\ _column_dp_list # <<>>

\* C30: writer independence after from_writer.  An add_style_filter on one
\* writer leaves the filter chain the other writer applies as it was, after
\* from_writer too.
C30_FilterChainsIndependent ==
    [][Calls("add_style_filter")
        => peer'.cfg._style_filters = peer.cfg._style_filters]_vars

\* ------------------------------------------------------------------ C31..C32

\* The column indexes whose effective style is compared: every column of the
\* headers and of the style list, and one beyond.
StyledColumns == 0..(Max(Len(headers), Len(col_style_list)) + 1)

\* C31: a set_style that raises (ValueError for a column that is no header
\* name, IndexError for an index outside the style list) leaves the rendering
\* state as it was: no column's effective style has changed, and the four
\* validity flags and the cached data are those of before the call.
C31_SetStyleFailure ==
    [][(Calls("set_style") /\ last'.result # "ok")
        => /\ \A col_idx \in StyledColumns :
                _get_col_style(col_idx)' = _get_col_style(col_idx)
           /\ UNCHANGED <<status_vars, data_vars>>]_vars

\* set_style has raised ValueError on a writer that was rendered before: the
\* cache is still valid and the style list has grown to the headers.
C31_Witness ==
    /\ last.op = "set_style" /\ last.result = "ValueError"
    /\ AllValid /\ _table_headers # <<>> /\ _table_value_matrix # <<>>
    /\ Len(col_style_list) = Len(headers) /\ headers # <<>>

\* What from_tabledata was called with.
GivenTableData == Get(last'.arg).value

\* C32: the cache after from_tabledata.  With table data that carries a typed
\* matrix, the typed-matrix flag is true, the cached typed matrix is the one
\* given, and the column-property, header and body flags are false; with
\* table data that carries none, the four flags are false and the cached data
\* is empty.
C32_FromTableDataCache ==
    [][Calls("from_tabledata")
        => /\ ~_is_complete_table_property_preprocess'
           /\ ~_is_complete_header_preprocess'
           /\ ~_is_complete_value_matrix_preprocess'
           /\ IF GivenTableData.has_value_dp_matrix
              THEN /\ _is_complete_table_dp_preprocess'
                   /\ _table_value_dp_matrix' = GivenTableData.value_dp_matrix
              ELSE /\ ~_is_complete_table_dp_preprocess'
                   /\ _table_value_dp_matrix' = <<>>
                   /\ _column_dp_list' = <<>>
                   /\ _table_headers' = <<>>
                   /\ _table_value_matrix' = <<>>]_vars

\* from_tabledata has stored a typed matrix that differs from the one the
\* writer computes from the same rows under its own type hints.
C32_Witness ==
    /\ last.op = "from_tabledata" /\ Get(last.arg).value.has_value_dp_matrix
    /\ _is_complete_table_dp_preprocess
    /\ _table_value_dp_matrix # <<>>
    /\ _table_value_dp_matrix # to_dp_matrix(headers, <<>>, value_matrix.rows)
    /\ _column_dp_list # <<>>

====
